---------------------------- MODULE Spec2Model ----------------------------
(***************************************************************************)
(* Recommendation & preference engine of the FindFood bot (src/main.py,    *)
(* src/db.py): handlers as coroutines that interleave at their awaits, the  *)
(* per-user session state, the suggestion queue, and the SQLite store with  *)
(* its single write lock.                                                   *)
(*                                                                         *)
(* Strings stand for the program's values: None for Python's None, item     *)
(* ids "r1".. (recipes) and "p1".. (restaurants); a text field of a catalog *)
(* row is the set of tokens t for which  lower(field) LIKE %t%  holds.      *)
(***************************************************************************)
EXTENDS Integers, Sequences, FiniteSets, TLC

None == "None"

\* ------------------------------------------------------------------ bounds
MaxH == 2          \* handler coroutines in flight at the same time (concurrent delivery)
MaxEvents == 6     \* updates sent by the user (sequential delivery)
MaxRapid == 5      \* updates sent by the user (concurrent delivery)
MaxShared == 4     \* updates sent by the first of two users (the second: two fewer)
MaxK == 3          \* queue length in the queue specification
MaxN == 3          \* feedback events in the preference-tracker specification
MaxCount == 3      \* likes / dislikes of a counter row in the category-resolution specification
\* Largest LIMIT handed to the rankers.
MaxLimit == 3
\* Updates sent by the user whose chat holds cards of deleted catalog rows.
MaxStale == 5
MaxLikes == 6
MaxWords == 3
MaxChars == 5

\* ------------------------------------------------------- program constants
DEFAULT_TASTES == {"sweet", "salty", "spicy", "healthy"}
SearchLimit == 3
RefillLimit == 1
RandomRetries == 3

Users == {"u1", "u2"}
GroupChat == "g"
ChatIds == Users \cup {GroupChat}
Kinds == {"recipe", "place"}
H == 1..MaxH

\* ----------------------------------------------------------------- catalog
\* recipes(id, title, tags, keywords, category), restaurants(id, name, city,
\* cuisine, rating, tags, keywords, category): rows of the external catalog.
Recipes ==
  [ r1 |-> [title |-> {"cake"}, tags |-> {"dessert"}, keywords |-> {}, category |-> "sweet"],
    r2 |-> [title |-> {"pie"}, tags |-> {"cake"}, keywords |-> {}, category |-> "sweet"],
    r3 |-> [title |-> {"curry"}, tags |-> {"spicy"}, keywords |-> {}, category |-> ""] ]

Restaurants ==
  [ p1 |-> [name |-> {"cafe"}, city |-> "Almaty", cuisine |-> {"coffee"}, rating |-> 5,
            tags |-> {"dessert"}, keywords |-> {}, category |-> "sweet"],
    p2 |-> [name |-> {"bakery"}, city |-> "Almaty", cuisine |-> {"pie"}, rating |-> 4,
            tags |-> {"cake"}, keywords |-> {}, category |-> "sweet"],
    p3 |-> [name |-> {"wok"}, city |-> "Almaty", cuisine |-> {"spicy"}, rating |-> 3,
            tags |-> {}, keywords |-> {}, category |-> ""],
    p4 |-> [name |-> {"grill"}, city |-> "Astana", cuisine |-> {}, rating |-> 5,
            tags |-> {"spicy"}, keywords |-> {"cake"}, category |-> ""] ]

RecipeIds == DOMAIN Recipes
PlaceIds == DOMAIN Restaurants
ItemIds == RecipeIds \cup PlaceIds

\* users(chat_id, city): the registered city of the chat a user talks in.
CityOf(u) == "Almaty"

\* ------------------------------------------------------------------- texts
\* The message texts the model delivers; the classification of each is what
\* the code's token tables give for the text it stands for.
CONTROL_BACK == "BACK"
CONTROL_FINISH == "FINISH"
CONTROL_RANDOM == "RANDOM"
CONTROL_CATEGORY_MENU == "CATMENU"
BtnCats == {"sweet", "spicy"}
Queries == {"cake", "zzz"}

\* resolve_mode: the mode buttons.
resolve_mode(text) ==
  IF text \in {"recipe", "restaurant"} THEN text ELSE None

\* resolve_category: "random" for the surprise button, a category for a taste
\* button or a text holding a taste token ("cake"), None otherwise.
resolve_category(text) ==
  IF text = CONTROL_RANDOM THEN "random"
  ELSE IF text \in BtnCats THEN text
  ELSE IF text = "cake" THEN "sweet"
  ELSE None

\* detect_category_from_text on a message text.
detect_category_from_text(text) ==
  IF text \in BtnCats THEN text
  ELSE IF text = "cake" THEN "sweet"
  ELSE None

\* detect_category_from_text(category, tags, keywords) on a catalog row: the
\* taste tokens are tried in the order sweet, salty, spicy, healthy.
DetectFromFields(fields) ==
  IF fields \cap {"sweet", "dessert", "cake", "pie"} # {} THEN "sweet"
  ELSE IF fields \cap {"salty"} # {} THEN "salty"
  ELSE IF fields \cap {"spicy", "curry"} # {} THEN "spicy"
  ELSE IF fields \cap {"healthy"} # {} THEN "healthy"
  ELSE None

\* expand_terms / normalize on the modelled texts: the text itself is its only term.
expand_terms(text) == IF text \in Queries THEN {text} ELSE {}
normalize(text) == text

\* ------------------------------------------------------------- store views
\* A store view d is a record of the tables: tastes (user_tastes), history
\* (user_history), favorites, rlikes (recipes.likes), feedback, prefs
\* (user_preferences) and ustate (user_state). tastes, history, favorites and
\* feedback are functions whose domain is the set of rows (keys) present.

NoItem == [id |-> None, category |-> None]

Min(a, b) == IF a < b THEN a ELSE b

\* ORDER BY key DESC, RANDOM() LIMIT n over the rows S: every sequence of
\* min(n, |S|) distinct rows, non-increasing in key, that leaves out no row
\* with a larger key than one it holds.
TopSeqs(S, key, n) ==
  LET m == Min(n, Cardinality(S))
  IN  { s \in [1..m -> S] :
          /\ \A i, j \in 1..m : i < j => (s[i] # s[j] /\ key[s[i]] >= key[s[j]])
          /\ \A x \in S : (\A i \in 1..m : s[i] # x) => \A i \in 1..m : key[s[i]] >= key[x] }

RecipeFields(id) == Recipes[id].title \cup Recipes[id].tags \cup Recipes[id].keywords
PlaceFields(id) ==
  Restaurants[id].name \cup Restaurants[id].tags \cup Restaurants[id].keywords
    \cup Restaurants[id].cuisine

\* match_score: 3 / 2 / 1 / 0 for the primary phrase in name / tags / keywords / none.
RecipeScore(id, primary) ==
  IF primary = None THEN 0
  ELSE IF primary \in Recipes[id].title THEN 3
  ELSE IF primary \in Recipes[id].tags THEN 2
  ELSE IF primary \in Recipes[id].keywords THEN 1
  ELSE 0

PlaceScore(id, primary) ==
  IF primary = None THEN 0
  ELSE IF primary \in Restaurants[id].name THEN 3
  ELSE IF primary \in Restaurants[id].tags THEN 2
  ELSE IF primary \in Restaurants[id].keywords THEN 1
  ELSE 0

CategoryFilter(taste, selected) ==
  IF selected # None THEN selected
  ELSE IF taste # None /\ taste # "random" THEN taste
  ELSE None

AsItem(kind, id) ==
  [id |-> id, category |-> IF kind = "recipe" THEN Recipes[id].category
                           ELSE Restaurants[id].category]

\* Faulty variant of fetch_by_id that answers a missing id with another row of
\* the table; C17_MissingItemSkipped must reject it.
fetch_by_id_any(kind, id) ==
  LET ids == IF kind = "recipe" THEN RecipeIds ELSE PlaceIds
  IN  AsItem(kind, IF id \in ids THEN id ELSE CHOOSE x \in ids : TRUE)

\* fetch_recipe_by_id / fetch_restaurant_by_id: the row's dict, or none when
\* the table holds no row of that id.
fetch_by_id(kind, id) ==
  IF id \in (IF kind = "recipe" THEN RecipeIds ELSE PlaceIds) THEN AsItem(kind, id) ELSE NoItem

\* Faulty variant of fetch_recipes whose widened retry drops the term filter
\* together with the category clause; C13_WideningKeepsFilters must reject it.
fetch_recipes_unfiltered(d, terms, taste, limit, primary, selected) ==
  LET cf == CategoryFilter(taste, selected)
      termOK(id) == terms = {} \/ terms \cap RecipeFields(id) # {}
      exact == {id \in RecipeIds : termOK(id) /\ (cf = None \/ Recipes[id].category = cf)}
      widened == {id \in RecipeIds :
                    Recipes[id].category = cf \/ cf \in Recipes[id].tags
                    \/ cf \in Recipes[id].keywords}
      key == [id \in RecipeIds |-> RecipeScore(id, primary) * 1000 + d.rlikes[id]]
      rows == IF exact # {} \/ cf = None \/ selected # None THEN exact ELSE widened
  IN  { [i \in DOMAIN s |-> AsItem("recipe", s[i])] : s \in TopSeqs(rows, key, limit) }

\* fetch_recipes: the possible result lists (sequences of item dicts).
fetch_recipes(d, terms, taste, limit, primary, selected) ==
  LET cf == CategoryFilter(taste, selected)
      termOK(id) == terms = {} \/ terms \cap RecipeFields(id) # {}
      exact == {id \in RecipeIds : termOK(id) /\ (cf = None \/ Recipes[id].category = cf)}
      widened == {id \in RecipeIds :
                    termOK(id) /\ (Recipes[id].category = cf \/ cf \in Recipes[id].tags
                                   \/ cf \in Recipes[id].keywords)}
      key == [id \in RecipeIds |-> RecipeScore(id, primary) * 1000 + d.rlikes[id]]
      rows == IF exact # {} \/ cf = None \/ selected # None THEN exact ELSE widened
  IN  { [i \in DOMAIN s |-> AsItem("recipe", s[i])] : s \in TopSeqs(rows, key, limit) }

\* Faulty variant of fetch_restaurants that orders by rating alone;
\* C15_RankedWithinLimit must reject it.
fetch_restaurants_by_rating(d, city, terms, taste, limit, primary, selected) ==
  LET cf == CategoryFilter(taste, selected)
      base(id) == /\ (city = None \/ Restaurants[id].city = city)
                  /\ (terms = {} \/ terms \cap PlaceFields(id) # {})
      exact == {id \in PlaceIds : base(id) /\ (cf = None \/ Restaurants[id].category = cf)}
      widened == {id \in PlaceIds :
                    base(id) /\ (Restaurants[id].category = cf \/ cf \in Restaurants[id].tags
                                 \/ cf \in Restaurants[id].keywords
                                 \/ cf \in Restaurants[id].cuisine)}
      key == [id \in PlaceIds |-> Restaurants[id].rating]
      rows == IF exact # {} \/ cf = None \/ selected # None THEN exact ELSE widened
  IN  { [i \in DOMAIN s |-> AsItem("place", s[i])] : s \in TopSeqs(rows, key, limit) }

\* Faulty variant of fetch_restaurants whose widened query drops the city
\* clause together with the category clause; C39_VenuesInCity must reject it.
fetch_restaurants_any_city(d, city, terms, taste, limit, primary, selected) ==
  LET cf == CategoryFilter(taste, selected)
      base(id) == /\ (city = None \/ Restaurants[id].city = city)
                  /\ (terms = {} \/ terms \cap PlaceFields(id) # {})
      exact == {id \in PlaceIds : base(id) /\ (cf = None \/ Restaurants[id].category = cf)}
      widened == {id \in PlaceIds :
                    /\ (terms = {} \/ terms \cap PlaceFields(id) # {})
                    /\ (Restaurants[id].category = cf \/ cf \in Restaurants[id].tags
                        \/ cf \in Restaurants[id].keywords
                        \/ cf \in Restaurants[id].cuisine)}
      key == [id \in PlaceIds |-> PlaceScore(id, primary) * 1000 + Restaurants[id].rating]
      rows == IF exact # {} \/ cf = None \/ selected # None THEN exact ELSE widened
  IN  { [i \in DOMAIN s |-> AsItem("place", s[i])] : s \in TopSeqs(rows, key, limit) }

\* fetch_restaurants: as fetch_recipes, with the city filter and the rating.
fetch_restaurants(d, city, terms, taste, limit, primary, selected) ==
  LET cf == CategoryFilter(taste, selected)
      base(id) == /\ (city = None \/ Restaurants[id].city = city)
                  /\ (terms = {} \/ terms \cap PlaceFields(id) # {})
      exact == {id \in PlaceIds : base(id) /\ (cf = None \/ Restaurants[id].category = cf)}
      widened == {id \in PlaceIds :
                    base(id) /\ (Restaurants[id].category = cf \/ cf \in Restaurants[id].tags
                                 \/ cf \in Restaurants[id].keywords
                                 \/ cf \in Restaurants[id].cuisine)}
      key == [id \in PlaceIds |-> PlaceScore(id, primary) * 1000 + Restaurants[id].rating]
      rows == IF exact # {} \/ cf = None \/ selected # None THEN exact ELSE widened
  IN  { [i \in DOMAIN s |-> AsItem("place", s[i])] : s \in TopSeqs(rows, key, limit) }

\* Faulty variant of resolve_random_category that returns the top row whatever
\* its score; C11_ResolveReference must reject it.
resolve_random_category_top(d, chat, fallback) ==
  IF fallback # None /\ fallback # "random" THEN {fallback}
  ELSE LET rows == {k \in DOMAIN d.tastes : k[1] = chat}
           score(k) == d.tastes[k].likes - d.tastes[k].dislikes
       IN  IF rows = {} THEN DEFAULT_TASTES
           ELSE {k[2] : k \in {x \in rows : \A j \in rows : score(x) >= score(j)}}

\* resolve_random_category: the categories it can return.
resolve_random_category(d, chat, fallback) ==
  IF fallback # None /\ fallback # "random" THEN {fallback}
  ELSE LET rows == {k \in DOMAIN d.tastes : k[1] = chat}
           score(k) == d.tastes[k].likes - d.tastes[k].dislikes
           top == {k \in rows : \A j \in rows :
                     \/ score(k) > score(j)
                     \/ score(k) = score(j) /\ d.tastes[k].likes >= d.tastes[j].likes}
       IN  UNION { IF score(k) >= 0 /\ d.tastes[k].likes >= 1 THEN {k[2]} ELSE DEFAULT_TASTES
                   : k \in top }
             \cup (IF rows = {} THEN DEFAULT_TASTES ELSE {})

\* Faulty variant of fetch_random_recipe that widens to tags and keywords also
\* for a selected category; C12_SelectedNeverWidens must reject it.
fetch_random_recipe_widening(d, chat, taste, selected) ==
  LET cats == IF selected # None THEN {selected} ELSE resolve_random_category(d, chat, taste)
      pool(c) == LET exact == {id \in RecipeIds : Recipes[id].category = c}
                     widened == {id \in RecipeIds :
                                   Recipes[id].category = c \/ c \in Recipes[id].tags
                                   \/ c \in Recipes[id].keywords}
                 IN  IF exact # {} THEN exact ELSE widened
  IN  UNION { IF pool(c) = {} THEN {NoItem}
              ELSE {[id |-> id, category |-> c] : id \in pool(c)} : c \in cats }

\* fetch_random_recipe: the item dicts it can return (NoItem for no row); the
\* returned dict's category is overwritten with the category asked for.
fetch_random_recipe(d, chat, taste, selected) ==
  LET cats == IF selected # None THEN {selected} ELSE resolve_random_category(d, chat, taste)
      pool(c) == LET exact == {id \in RecipeIds : Recipes[id].category = c}
                     widened == {id \in RecipeIds :
                                   Recipes[id].category = c \/ c \in Recipes[id].tags
                                   \/ c \in Recipes[id].keywords}
                 IN  IF exact # {} \/ selected # None THEN exact ELSE widened
  IN  UNION { IF pool(c) = {} THEN {NoItem}
              ELSE {[id |-> id, category |-> c] : id \in pool(c)} : c \in cats }

\* fetch_random_place: ORDER BY rating DESC, RANDOM() LIMIT 1 within the city.
fetch_random_place(d, chat, city, taste, selected) ==
  LET cats == IF selected # None THEN {selected} ELSE resolve_random_category(d, chat, taste)
      inCity(id) == city = None \/ Restaurants[id].city = city
      pool(c) == LET exact == {id \in PlaceIds : inCity(id) /\ Restaurants[id].category = c}
                     widened == {id \in PlaceIds :
                                   inCity(id) /\ (Restaurants[id].category = c
                                     \/ c \in Restaurants[id].tags
                                     \/ c \in Restaurants[id].keywords
                                     \/ c \in Restaurants[id].cuisine)}
                 IN  IF exact # {} \/ selected # None THEN exact ELSE widened
      best(c) == {id \in pool(c) : \A j \in pool(c) :
                    Restaurants[id].rating >= Restaurants[j].rating}
  IN  UNION { IF pool(c) = {} THEN {NoItem}
              ELSE {[id |-> id, category |-> c] : id \in best(c)} : c \in cats }

\* ------------------------------------------------------------------- state
VARIABLES
  chatOf,      \* the chat each user talks in: a private chat (id = user id) or the group
  budget,      \* updates still to be delivered to each user
  conv,        \* ConversationHandler state of each user
  USER_STATE,  \* the module-level dict USER_STATE
  user_data,   \* context.user_data of each user
  db,          \* the store's committed tables
  wtx,         \* the open write transaction: its handler and its working tables
  slots,       \* the handler coroutines, each suspended at an await
  cards,       \* per chat: the cards whose inline keyboard is still attached
  ghost        \* history variable, never read by the handlers: per user and kind the
               \* operation that presented the last card (a call trace in SpecQueue, SpecRecord)

vars == <<chatOf, budget, conv, USER_STATE, user_data, db, wtx, slots, cards, ghost>>

NoMeta == [kind |-> None, terms |-> {}, taste |-> None, primary |-> None, city |-> None]
NoBundle == [present |-> FALSE, items |-> <<>>, index |-> 0, meta |-> NoMeta]

\* context.user_data after clear().
EmptyUserData ==
  [mode |-> None, taste |-> None, selected |-> None, stage |-> None, skip |-> FALSE,
   bundle |-> [k \in Kinds |-> NoBundle], last |-> [k \in Kinds |-> None], hinted |-> {}]

NoUserState ==
  [present |-> FALSE, mode |-> None, category |-> None,
   processing_random |-> FALSE, processing_category |-> FALSE]

InitDB ==
  [tastes |-> << >>, history |-> << >>, favorites |-> << >>, feedback |-> << >>,
   rlikes |-> [id \in RecipeIds |-> 0],
   prefs |-> [k \in ChatIds |-> [last_mode |-> None, last_category |-> None,
                                 liked_count |-> 0, disliked_count |-> 0]],
   ustate |-> [u \in Users |-> [category |-> None, mode |-> None, last_action |-> None]]]

NoTx == [owner |-> 0, db |-> InitDB]

Idle ==
  [op |-> "idle", u |-> None, pc |-> "idle", text |-> None, mode |-> None, taste |-> None,
   explicit |-> None, act |-> None, kind |-> None, id |-> None, item |-> NoItem, fail |-> FALSE]

ItemType(mode) == IF mode = "restaurant" THEN "place" ELSE "recipe"

\* ------------------------------------------------------- session helpers
\* ensure_user_state: the entry is created from the stored user_state row.
ensure_user_state(US, d, u) ==
  IF US[u].present THEN US
  ELSE [US EXCEPT ![u] = [present |-> TRUE, mode |-> d.ustate[u].mode,
                          category |-> d.ustate[u].category,
                          processing_random |-> FALSE, processing_category |-> FALSE]]

Coalesce(new, old) == IF new # None THEN new ELSE old

\* save_user_state / upsert_user_preferences: each opens its own connection, so
\* the write fails ("database is locked") while another connection holds the
\* write lock; remember_context logs the error and goes on.
save_user_state(d, u, category, mode, last_action) ==
  [d EXCEPT !.ustate[u] = [category |-> Coalesce(category, @.category),
                           mode |-> Coalesce(mode, @.mode),
                           last_action |-> Coalesce(last_action, @.last_action)]]

upsert_user_preferences(d, u, mode, category, query) ==
  [d EXCEPT !.prefs[u] = [@ EXCEPT !.last_mode = Coalesce(mode, @),
                                   !.last_category = Coalesce(category, @)]]

\* remember_context(user_id, mode=, category=, city=, query=, last_action=):
\* the new USER_STATE and the new committed tables. locked: a write
\* transaction is open on some connection.
remember_context(US, d, locked, u, mode, category, city, query, last_action) ==
  LET US1 == ensure_user_state(US, d, u)
      US2 == [US1 EXCEPT ![u].mode = Coalesce(mode, @),
                         ![u].category = Coalesce(category, @)]
      persist == mode # None \/ category # None \/ city # None \/ last_action # None
      d1 == IF persist /\ ~locked THEN save_user_state(d, u, category, mode, last_action) ELSE d
      d2 == IF (mode # None \/ category # None \/ query # None) /\ ~locked
            THEN upsert_user_preferences(d1, u, mode, category, query) ELSE d1
  IN  [US |-> US2, db |-> d2]

\* Faulty variant of reset_session that clears the hinted categories too;
\* C26_HintAtMostOnce must reject it.
reset_session_all(ud) == EmptyUserData

\* reset_session: user_data is cleared, the hinted categories are kept.
reset_session(ud) == [EmptyUserData EXCEPT !.hinted = ud.hinted]

\* store_queue / current_item / advance_queue / queue_meta on one user's user_data.
store_queue(ud, kind, items, meta) ==
  [ud EXCEPT !.bundle[kind] = [present |-> TRUE, items |-> items, index |-> 0, meta |-> meta]]

\* Faulty variant of current_item that clamps the cursor to the last item
\* instead of returning none; C7_QueueRounds must reject it.
current_item_clamped(ud, kind) ==
  LET b == ud.bundle[kind]
  IN  IF ~b.present \/ Len(b.items) = 0 THEN NoItem
      ELSE IF b.index < Len(b.items) THEN b.items[b.index + 1] ELSE b.items[Len(b.items)]

current_item(ud, kind) ==
  LET b == ud.bundle[kind]
  IN  IF ~b.present THEN NoItem
      ELSE IF b.index < Len(b.items) THEN b.items[b.index + 1] ELSE NoItem

\* Faulty variant of advance_queue that moves the cursor by two;
\* C18_NextOnlyAdvances must reject it.
advance_queue_twice(ud, kind) ==
  IF ~ud.bundle[kind].present THEN ud
  ELSE [ud EXCEPT !.bundle[kind].index = @ + 2]

advance_queue(ud, kind) ==
  IF ~ud.bundle[kind].present THEN ud
  ELSE [ud EXCEPT !.bundle[kind].index = @ + 1]

queue_meta(ud, kind) == ud.bundle[kind].meta

\* Faulty variant of update_last_suggestion that records nothing;
\* C20_LastIsCardPresented must reject it.
update_last_suggestion_skipped(ud, kind, id) == ud

\* update_last_suggestion
update_last_suggestion(ud, kind, id) == [ud EXCEPT !.last[kind] = id]

Locked == wtx.owner # 0

IsFree(h) == slots[h].op = "idle"
\* The coroutine a new update gets: the first free one.
NewSlot(h) == IsFree(h) /\ \A g \in H : g < h => ~IsFree(g)

Deliver(u) == budget[u] > 0 /\ budget' = [budget EXCEPT ![u] = @ - 1]

\* The store the process is started on: empty, or holding the user_state rows
\* an earlier run saved for its users.
SavedDB ==
  [InitDB EXCEPT !.ustate = [u \in Users |-> [category |-> "sweet", mode |-> "recipe",
                                              last_action |-> "random_recipe"]],
                 !.prefs = [k \in ChatIds |->
                              IF k \in Users
                              THEN [InitDB.prefs[k] EXCEPT !.last_mode = "recipe",
                                                          !.last_category = "sweet"]
                              ELSE InitDB.prefs[k]]]

\* A coroutine the dispatcher never uses.
Off == [Idle EXCEPT !.op = "off"]

\* The state after construction: n coroutines can be in flight, the users are
\* sent up to ev1 and ev2 updates.
InitWith(n, ev1, ev2) ==
  /\ chatOf \in {[u \in Users |-> u], [u \in Users |-> GroupChat]}
  /\ budget = [u \in Users |-> IF u = "u1" THEN ev1 ELSE ev2]
  /\ conv = [u \in Users |-> "END"]
  /\ USER_STATE = [u \in Users |-> NoUserState]
  /\ user_data = [u \in Users |-> EmptyUserData]
  /\ db \in {InitDB, SavedDB}
  /\ wtx = NoTx
  /\ slots = [h \in H |-> IF h <= n THEN Idle ELSE Off]
  /\ cards = [c \in ChatIds |-> {}]
  /\ ghost = [u \in Users |-> [k \in Kinds |-> None]]

\* Updates are processed one at a time (the Application is built without
\* concurrent_updates, so a handler runs to its end before the next update);
\* the second user is a chat member who sends nothing.
Init == InitWith(1, MaxEvents, 0)

\* Updates are processed concurrently: handlers interleave at their awaits.
InitConcurrent == InitWith(MaxH, MaxRapid, 0)

\* Two users send updates, processed one at a time.
InitShared == InitWith(1, MaxShared, MaxShared - 2)

\* ------------------------------------------------------------------ /start
\* start (registered user): ensure_synonyms writes on its own connection and
\* raises when the write lock is held; then the session is reset. start has
\* no await before its last send, so it runs in one step of a free coroutine.
Start(u) ==
  /\ Deliver(u)
  /\ \E h \in H : IsFree(h)
  /\ IF Locked
     THEN UNCHANGED <<conv, USER_STATE, user_data, db>>
     ELSE LET US1 == ensure_user_state(USER_STATE, db, u)
              rc == remember_context(US1, db, Locked, u, None, None, CityOf(u), None, None)
          IN  /\ USER_STATE' = rc.US
              /\ db' = rc.db
              /\ user_data' = [user_data EXCEPT
                                 ![u] = [reset_session(@) EXCEPT !.stage = "choosing_mode"]]
              /\ conv' = [conv EXCEPT ![u] = "CHOOSE_MODE"]
  /\ UNCHANGED <<chatOf, wtx, slots, cards, ghost>>

\* ------------------------------------------------------------- choose_mode
\* A handler that ends at its first await: the reply may raise, and then the
\* conversation state is not updated.
Reply(u, ret) == \E ok \in BOOLEAN : conv' = [conv EXCEPT ![u] = IF ok THEN ret ELSE @]

\* The surprise branch shared by choose_mode, handle_taste and handle_query,
\* from the busy-flag test to the first await (the reaction message). US, d are
\* the USER_STATE and committed tables the handler has produced so far.
\* set_processing_random(user_id, True)
set_processing_random(US, u, value) == [US EXCEPT ![u].processing_random = value]
set_processing_category(US, u, value) == [US EXCEPT ![u].processing_category = value]
\* Faulty variant of is_processing_random that never reports the flag;
\* C3_SurpriseTestAndSet must reject it.
is_processing_random_ignored(US, u) == FALSE

is_processing_random(US, u) == US[u].processing_random
is_processing_category(US, u) == US[u].processing_category

\* choose_mode, text = CONTROL_RANDOM (main.py 1448-1476, up to the first await).
ChooseModeRandom(u, h) ==
  LET st == USER_STATE[u]
      mode_choice == IF st.mode # None THEN st.mode
                     ELSE IF user_data[u].mode # None THEN user_data[u].mode ELSE "recipe"
      taste_choice == IF st.category # None THEN st.category ELSE user_data[u].taste
      rc == remember_context(USER_STATE, db, Locked, u, mode_choice, taste_choice,
                             None, None, "random")
  IN  IF is_processing_random(USER_STATE, u)
      THEN /\ conv' = [conv EXCEPT ![u] = "ASK_QUERY"]
           /\ UNCHANGED <<USER_STATE, user_data, db, slots>>
      ELSE IF taste_choice = None
      THEN /\ Reply(u, "CHOOSE_TASTE")
           /\ UNCHANGED <<USER_STATE, user_data, db, slots>>
      ELSE /\ user_data' = [user_data EXCEPT ![u].mode = mode_choice,
                                             ![u].taste = taste_choice,
                                             ![u].stage = "waiting_for_input",
                                             ![u].skip = FALSE]
           /\ USER_STATE' = set_processing_random(rc.US, u, TRUE)
           /\ db' = rc.db
           /\ slots' = [slots EXCEPT ![h] = [Idle EXCEPT !.op = "choose_mode", !.u = u,
                                               !.pc = "react", !.act = "random",
                                               !.mode = mode_choice,
                                               !.taste = taste_choice, !.fail = TRUE]]
           /\ UNCHANGED conv

\* choose_mode, a mode button or another text (main.py 1478-1504).
ChooseModeMode(u, text) ==
  LET mode == resolve_mode(text)
      st == USER_STATE[u]
      existing == IF st.category # None THEN st.category ELSE user_data[u].taste
      rcA == remember_context(USER_STATE, db, Locked, u, mode, existing, None, None, "mode")
      rcB == remember_context(USER_STATE, db, Locked, u, mode, None, None, None, "mode")
  IN  IF mode = None
      THEN /\ Reply(u, "CHOOSE_MODE")
           /\ UNCHANGED <<USER_STATE, user_data, db>>
      ELSE IF existing # None
      THEN /\ user_data' = [user_data EXCEPT ![u].mode = mode, ![u].taste = existing,
                                             ![u].stage = "waiting_for_input"]
           /\ USER_STATE' = rcA.US
           /\ db' = rcA.db
           /\ Reply(u, "ASK_QUERY")
      ELSE /\ user_data' = [user_data EXCEPT ![u].mode = mode,
                                             ![u].stage = "choosing_category"]
           /\ USER_STATE' = rcB.US
           /\ db' = rcB.db
           /\ Reply(u, "CHOOSE_TASTE")

ChooseMode(u) ==
  /\ conv[u] = "CHOOSE_MODE"
  /\ Deliver(u)
  /\ \E h \in H, text \in {CONTROL_RANDOM, "recipe", "restaurant", "zzz"} :
       /\ NewSlot(h)
       /\ IF text = CONTROL_RANDOM
          THEN ChooseModeRandom(u, h)
          ELSE ChooseModeMode(u, text) /\ UNCHANGED slots
  /\ UNCHANGED <<chatOf, wtx, cards, ghost>>

\* ------------------------------------------------- send_random_recipe/place
\* The retry loop of repeat avoidance: up to n more retrievals while the
\* candidate is the last suggestion; an empty or different retrieval ends it.
RECURSIVE RetryPick(_, _, _, _)
RetryPick(first, results, last, n) ==
  IF n = 0 THEN {first}
  ELSE {alt \in results : alt # NoItem /\ alt.id # last}
         \cup (IF NoItem \in results THEN {first} ELSE {})
         \cup (IF \E alt \in results : alt # NoItem /\ alt.id = last
               THEN RetryPick(first, results, last, n - 1) ELSE {})

\* The items send_random_recipe / send_random_place can settle on (NoItem: no match).
RandomPick(d, kind, chat, city, preferred, explicit, last) ==
  LET results == IF kind = "recipe" THEN fetch_random_recipe(d, chat, preferred, explicit)
                 ELSE fetch_random_place(d, chat, city, preferred, explicit)
  IN  UNION { IF first = NoItem THEN {NoItem}
              ELSE IF first.id = last THEN RetryPick(first, results, last, RandomRetries)
              ELSE {first} : first \in results }

\* Resumption after the reaction message and cozy_delay: the send raised (the
\* handler ends there), or send_random_recipe / send_random_place runs to its
\* next await.
RandFetch(h) ==
  LET s == slots[h]
      u == s.u
      ud == user_data[u]
      kind == ItemType(s.mode)
      city == CityOf(u)
      rc0 == IF kind = "place"
             THEN remember_context(USER_STATE, db, Locked, u, None, None, city, None, None)
             ELSE [US |-> USER_STATE, db |-> db]
      preferred == IF s.taste # None THEN s.taste
                   ELSE IF ud.taste # None THEN ud.taste ELSE rc0.US[u].category
  IN  /\ s.pc = "react"
      /\ \/ /\ slots' = [slots EXCEPT ![h] = Idle]
            /\ UNCHANGED <<USER_STATE, user_data, db>>
         \/ \E item \in RandomPick(db, kind, chatOf[u], city, preferred, ud.selected,
                                   ud.last[kind]) :
              IF item = NoItem
              THEN /\ user_data' = [user_data EXCEPT ![u].stage = "showing_result"]
                   /\ USER_STATE' = rc0.US
                   /\ db' = rc0.db
                   /\ slots' = [slots EXCEPT ![h].pc = "nores", ![h].taste = preferred,
                                             ![h].fail = TRUE]
              ELSE LET category == item.category
                       meta == [NoMeta EXCEPT !.kind = "random", !.taste = category,
                                              !.city = IF kind = "place" THEN city ELSE None]
                       ud1 == store_queue(ud, kind, <<item>>, meta)
                       rc == remember_context(rc0.US, rc0.db, Locked, u, ud.mode, category,
                                              None, None, "random_" \o kind)
                   IN  /\ user_data' = [user_data EXCEPT
                                          ![u] = [ud1 EXCEPT !.taste = category,
                                                             !.stage = "showing_result"]]
                       /\ USER_STATE' = rc.US
                       /\ db' = rc.db
                       /\ slots' = [slots EXCEPT ![h].pc = "card", ![h].item = item,
                                                 ![h].kind = kind, ![h].fail = FALSE]
      /\ UNCHANGED <<chatOf, budget, conv, wtx, cards, ghost>>

\* The flags a handler clears when it returns: the surprise branches clear
\* PROCESSING_RANDOM (handle_taste also PROCESSING_CATEGORY), the search branch
\* of handle_query clears PROCESSING_CATEGORY.
ClearBusy(US, s) ==
  IF s.act = "random"
  THEN LET US1 == set_processing_random(US, s.u, FALSE)
       IN  IF s.op = "handle_taste" THEN set_processing_category(US1, s.u, FALSE) ELSE US1
  ELSE set_processing_category(US, s.u, FALSE)

\* The rest of a surprise or search handler once an item is chosen: the bridge
\* message of a search may raise (the handler ends there); send_recipe_card /
\* send_place_card follows (send_visual swallows transport errors) and updates
\* the last suggestion; the flags are cleared and the handler returns ASK_QUERY.
SendCard(h) ==
  LET s == slots[h]
      u == s.u
  IN  /\ s.pc = "card"
      /\ \/ /\ s.fail
            /\ UNCHANGED <<user_data, cards, USER_STATE, conv, ghost>>
         \/ /\ user_data' = [user_data EXCEPT
                               ![u] = update_last_suggestion(@, s.kind, s.item.id)]
            /\ cards' = [cards EXCEPT ![chatOf[u]] = @ \cup {<<s.kind, s.item.id>>}]
            /\ USER_STATE' = ClearBusy(USER_STATE, s)
            /\ conv' = [conv EXCEPT ![u] = "ASK_QUERY"]
            /\ ghost' = [ghost EXCEPT ![u][s.kind] =
                                        IF s.act = "random" THEN "surprise" ELSE "search"]
      /\ slots' = [slots EXCEPT ![h] = Idle]
      /\ UNCHANGED <<chatOf, budget, db, wtx>>

\* handle_no_results completed or raised; when the AI collaborator answered,
\* send_ai_suggestions calls remember_context.
NoResults(h) ==
  LET s == slots[h]
      u == s.u
      rc == remember_context(USER_STATE, db, Locked, u, s.mode, s.taste, CityOf(u),
                             None, "ai_suggestion")
  IN  /\ s.pc = "nores"
      /\ \/ /\ slots' = [slots EXCEPT ![h] = Idle]
            /\ UNCHANGED <<USER_STATE, db, conv>>
         \/ \E ai \in BOOLEAN :
              /\ USER_STATE' = ClearBusy(IF ai THEN rc.US ELSE USER_STATE, s)
              /\ db' = IF ai THEN rc.db ELSE db
              /\ conv' = [conv EXCEPT ![u] = "ASK_QUERY"]
              /\ slots' = [slots EXCEPT ![h] = Idle]
      /\ UNCHANGED <<chatOf, budget, user_data, wtx, cards, ghost>>

\* ---------------------------------------------------------- handle_control
Controls == {CONTROL_BACK, CONTROL_CATEGORY_MENU, CONTROL_FINISH}

\* handle_control for a control text: the state changes precede the reply,
\* which may raise; Finish resets the session after send_visual.
handle_control(u, text) ==
  LET ud == user_data[u]
      rc == remember_context(set_processing_category(set_processing_random(USER_STATE, u, FALSE),
                                                     u, FALSE),
                             db, Locked, u, None, None, None, None, "category_menu")
  IN  /\ \/ /\ text = CONTROL_BACK
            /\ user_data' = [user_data EXCEPT
                 ![u].stage = IF ud.stage \in {"waiting_for_input", "showing_result"}
                              THEN "choosing_category" ELSE "choosing_mode",
                 ![u].skip = FALSE]
            /\ USER_STATE' = set_processing_random(USER_STATE, u, FALSE)
            /\ db' = db
            /\ Reply(u, IF ud.stage \in {"waiting_for_input", "showing_result"}
                        THEN "CHOOSE_TASTE" ELSE "CHOOSE_MODE")
         \/ /\ text = CONTROL_CATEGORY_MENU
            /\ user_data' = [user_data EXCEPT ![u].stage = "choosing_category",
                                              ![u].skip = FALSE]
            /\ USER_STATE' = rc.US
            /\ db' = rc.db
            /\ Reply(u, "CHOOSE_TASTE")
         \/ /\ text = CONTROL_FINISH
            /\ user_data' = [user_data EXCEPT ![u] = reset_session(@)]
            /\ conv' = [conv EXCEPT ![u] = "END"]
            /\ UNCHANGED <<USER_STATE, db>>
      /\ UNCHANGED slots

\* ------------------------------------------------------------ handle_taste
\* set_selected_category
set_selected_category(ud, category) == [ud EXCEPT !.selected = category]

\* handle_taste after handle_control returned None, up to its first await.
HandleTasteText(u, h, text) ==
  LET category == resolve_category(text)
      ud == user_data[u]
      st == USER_STATE[u]
      mode == IF ud.mode # None THEN ud.mode ELSE IF st.mode # None THEN st.mode ELSE "recipe"
      fallback_category == IF st.category # None THEN st.category ELSE ud.taste
      rcR == remember_context(set_processing_random(set_processing_category(USER_STATE, u, TRUE),
                                                    u, TRUE),
                              db, Locked, u, None, fallback_category, None, None, "random")
      rcC == remember_context(set_processing_category(USER_STATE, u, TRUE),
                              db, Locked, u, None, category, None, None, "category_select")
  IN  IF is_processing_category(USER_STATE, u)
      THEN /\ conv' = [conv EXCEPT ![u] = IF category = None THEN "CHOOSE_TASTE" ELSE "ASK_QUERY"]
           /\ UNCHANGED <<USER_STATE, user_data, db, slots>>
      ELSE IF category = None
      THEN /\ Reply(u, "CHOOSE_TASTE")
           /\ UNCHANGED <<USER_STATE, user_data, db, slots>>
      ELSE IF category = "random" /\ is_processing_random(USER_STATE, u)
      THEN /\ user_data' = [user_data EXCEPT ![u] = set_selected_category(@, None)]
           /\ conv' = [conv EXCEPT ![u] = "ASK_QUERY"]
           /\ UNCHANGED <<USER_STATE, db, slots>>
      ELSE IF category = "random" /\ fallback_category = None
      THEN /\ user_data' = [user_data EXCEPT ![u] = set_selected_category(@, None)]
           /\ Reply(u, "CHOOSE_TASTE")
           /\ UNCHANGED <<USER_STATE, db, slots>>
      ELSE IF category = "random"
      THEN /\ user_data' = [user_data EXCEPT
                              ![u] = [set_selected_category(@, None) EXCEPT
                                        !.taste = fallback_category,
                                        !.stage = "waiting_for_input", !.skip = FALSE]]
           /\ USER_STATE' = rcR.US
           /\ db' = rcR.db
           /\ slots' = [slots EXCEPT ![h] = [Idle EXCEPT !.op = "handle_taste", !.u = u,
                                               !.pc = "react", !.act = "random",
                                               !.mode = mode,
                                               !.taste = fallback_category, !.fail = TRUE]]
           /\ UNCHANGED conv
      ELSE /\ user_data' = [user_data EXCEPT
                              ![u] = [set_selected_category(@, category) EXCEPT
                                        !.taste = category, !.stage = "waiting_for_input"]]
           /\ USER_STATE' = rcC.US
           /\ db' = rcC.db
           /\ slots' = [slots EXCEPT ![h] = [Idle EXCEPT !.op = "handle_taste", !.u = u,
                                               !.pc = "visual", !.mode = mode,
                                               !.taste = category]]
           /\ UNCHANGED conv

HandleTaste(u) ==
  /\ conv[u] = "CHOOSE_TASTE"
  /\ Deliver(u)
  /\ \E h \in H, text \in Controls \cup {CONTROL_RANDOM, "zzz"} \cup BtnCats :
       /\ NewSlot(h)
       /\ IF text \in Controls THEN handle_control(u, text) ELSE HandleTasteText(u, h, text)
  /\ UNCHANGED <<chatOf, wtx, cards, ghost>>

\* The prompt after a category choice was sent (send_visual swallows transport
\* errors): the category flag is cleared and the handler returns ASK_QUERY.
CategoryPrompt(h) ==
  LET s == slots[h]
  IN  /\ s.pc = "visual"
      /\ USER_STATE' = set_processing_category(USER_STATE, s.u, FALSE)
      /\ conv' = [conv EXCEPT ![s.u] = "ASK_QUERY"]
      /\ slots' = [slots EXCEPT ![h] = Idle]
      /\ UNCHANGED <<chatOf, budget, user_data, db, wtx, cards, ghost>>

\* ------------------------------------------------------------ handle_query
\* handle_query from the surprise test or the search branch on (main.py
\* 1976-2003), entered with the handler's locals mode, taste and
\* explicit_category; US, ud, d are what the handler has produced so far.
QueryDispatch(u, h, text, mode, taste, explicit, US, ud, d) ==
  LET rcR == remember_context(set_processing_random(US, u, TRUE), d, Locked, u,
                              mode, taste, None, None, "random")
      rcS == remember_context(US, d, Locked, u, None, None, None, text, "search")
      local == [Idle EXCEPT !.op = "handle_query", !.u = u, !.text = text, !.mode = mode,
                            !.taste = taste, !.explicit = explicit]
  IN  IF resolve_category(text) = "random"
      THEN IF is_processing_random(US, u)
           THEN /\ conv' = [conv EXCEPT ![u] = "ASK_QUERY"]
                /\ USER_STATE' = US
                /\ user_data' = [user_data EXCEPT ![u] = ud]
                /\ db' = d
                /\ slots' = [slots EXCEPT ![h] = Idle]
           ELSE /\ USER_STATE' = rcR.US
                /\ user_data' = [user_data EXCEPT
                                   ![u] = [ud EXCEPT !.stage = "waiting_for_input",
                                                     !.skip = FALSE]]
                /\ db' = rcR.db
                /\ slots' = [slots EXCEPT ![h] = [local EXCEPT !.pc = "react", !.act = "random",
                                                               !.fail = TRUE]]
                /\ UNCHANGED conv
      ELSE /\ USER_STATE' = rcS.US
           /\ user_data' = [user_data EXCEPT ![u] = [ud EXCEPT !.stage = "waiting_for_input"]]
           /\ db' = rcS.db
           /\ slots' = [slots EXCEPT ![h] = [local EXCEPT !.pc = "thinking", !.act = "search"]]
           /\ UNCHANGED conv

\* Faulty variant of HandleQueryText that infers the category from the text
\* although the user has one; C30_KeywordKeepsCategory must reject it.
HandleQueryTextInferring(u, h, text) ==
  LET ud == user_data[u]
      st == USER_STATE[u]
      mode == IF ud.mode # None THEN ud.mode ELSE IF st.mode # None THEN st.mode ELSE "recipe"
      taste == IF ud.taste # None THEN ud.taste ELSE st.category
      inferred == detect_category_from_text(text)
      rcI == remember_context(USER_STATE, db, Locked, u, None, inferred, None, None,
                              "category_inferred")
      local == [Idle EXCEPT !.op = "handle_query", !.u = u, !.text = text, !.mode = mode,
                            !.explicit = ud.selected]
  IN  IF inferred # None /\ inferred # "random"
      THEN /\ user_data' = [user_data EXCEPT
                              ![u] = [set_selected_category(@, inferred) EXCEPT
                                        !.taste = inferred, !.skip = FALSE]]
           /\ USER_STATE' = rcI.US
           /\ db' = rcI.db
           /\ slots' = [slots EXCEPT ![h] = [local EXCEPT !.pc = "inferred",
                                                          !.taste = inferred, !.fail = TRUE]]
           /\ UNCHANGED conv
      ELSE QueryDispatch(u, h, text, mode, taste, ud.selected, USER_STATE,
                         [ud EXCEPT !.skip = FALSE], db)

\* handle_query after handle_control returned None, up to its first await.
HandleQueryText(u, h, text) ==
  LET ud == user_data[u]
      st == USER_STATE[u]
      mode == IF ud.mode # None THEN ud.mode ELSE IF st.mode # None THEN st.mode ELSE "recipe"
      taste == IF ud.taste # None THEN ud.taste ELSE st.category
      explicit == ud.selected
      direct == IF text \in BtnCats THEN text ELSE None
      inferred == detect_category_from_text(text)
      USd == set_processing_category(USER_STATE, u, TRUE)
      rcD == remember_context(USd, db, Locked, u, None, direct, None, None, "category_shortcut")
      rcI == remember_context(USER_STATE, db, Locked, u, None, inferred, None, None,
                              "category_inferred")
      local == [Idle EXCEPT !.op = "handle_query", !.u = u, !.text = text, !.mode = mode,
                            !.explicit = explicit]
  IN  IF direct # None
      THEN IF is_processing_category(USER_STATE, u)
           THEN /\ conv' = [conv EXCEPT ![u] = "ASK_QUERY"]
                /\ UNCHANGED <<USER_STATE, user_data, db, slots>>
           ELSE IF direct # taste
           THEN /\ user_data' = [user_data EXCEPT
                                   ![u] = [set_selected_category(@, direct) EXCEPT
                                             !.taste = direct]]
                /\ USER_STATE' = rcD.US
                /\ db' = rcD.db
                /\ slots' = [slots EXCEPT ![h] = [local EXCEPT !.pc = "shortcut",
                                                               !.taste = direct, !.fail = TRUE]]
                /\ UNCHANGED conv
           ELSE /\ user_data' = [user_data EXCEPT
                                   ![u] = [set_selected_category(@, direct) EXCEPT
                                             !.stage = "waiting_for_input"]]
                /\ USER_STATE' = USd
                /\ slots' = [slots EXCEPT ![h] = [local EXCEPT !.pc = "visual",
                                                               !.taste = direct]]
                /\ UNCHANGED <<conv, db>>
      ELSE IF inferred # None /\ inferred # "random" /\ taste = None
      THEN /\ user_data' = [user_data EXCEPT
                              ![u] = [set_selected_category(@, inferred) EXCEPT
                                        !.taste = inferred, !.skip = FALSE]]
           /\ USER_STATE' = rcI.US
           /\ db' = rcI.db
           /\ slots' = [slots EXCEPT ![h] = [local EXCEPT !.pc = "inferred",
                                                          !.taste = inferred, !.fail = TRUE]]
           /\ UNCHANGED conv
      ELSE QueryDispatch(u, h, text, mode, taste, explicit, USER_STATE,
                         [ud EXCEPT !.skip = FALSE], db)

HandleQuery(u) ==
  /\ conv[u] = "ASK_QUERY"
  /\ Deliver(u)
  /\ \E h \in H, text \in Controls \cup {CONTROL_RANDOM} \cup BtnCats \cup Queries :
       /\ NewSlot(h)
       /\ IF text \in Controls THEN handle_control(u, text) ELSE HandleQueryText(u, h, text)
  /\ UNCHANGED <<chatOf, wtx, cards, ghost>>

\* The acknowledgement of a category shortcut or of an inferred category was
\* sent, or the send raised and the handler ended there.
QueryAck(h) ==
  LET s == slots[h]
      u == s.u
  IN  /\ s.pc \in {"shortcut", "inferred"}
      /\ \/ /\ slots' = [slots EXCEPT ![h] = Idle]
            /\ UNCHANGED <<USER_STATE, user_data, db, conv>>
         \/ /\ s.pc = "shortcut"
            /\ user_data' = [user_data EXCEPT ![u].stage = "waiting_for_input"]
            /\ slots' = [slots EXCEPT ![h].pc = "visual", ![h].fail = FALSE]
            /\ UNCHANGED <<USER_STATE, db, conv>>
         \/ /\ s.pc = "inferred"
            /\ QueryDispatch(u, h, s.text, s.mode, s.taste, s.explicit, USER_STATE,
                             user_data[u], db)
      /\ UNCHANGED <<chatOf, budget, wtx, cards, ghost>>

\* The first card of a search: the first candidate that is not the last
\* suggestion, the last candidate when all of them are.
FirstCard(items, last) ==
  IF \E i \in DOMAIN items : items[i].id # last
  THEN items[CHOOSE i \in DOMAIN items :
               items[i].id # last /\ \A j \in DOMAIN items : j < i => items[j].id = last]
  ELSE items[Len(items)]

ItemFields(kind, id) == IF kind = "recipe" THEN Recipes[id].tags \cup Recipes[id].keywords
                        ELSE Restaurants[id].tags \cup Restaurants[id].keywords

\* handle_query after send_thinking (main.py 2005-2063): the retrieval, the
\* retry without terms, store_queue and the choice of the first card.
QuerySearch(h) ==
  LET s == slots[h]
      u == s.u
      ud == user_data[u]
      kind == ItemType(s.mode)
      terms == expand_terms(s.text)
      primary == normalize(s.text)
      fetch(t) == IF kind = "recipe"
                  THEN fetch_recipes(db, t, s.taste, SearchLimit, primary, s.explicit)
                  ELSE fetch_restaurants(db, CityOf(u), t, s.taste, SearchLimit, primary,
                                         s.explicit)
      results == UNION { IF Len(r) = 0 /\ s.taste # None /\ s.taste # "random"
                         THEN fetch({}) ELSE {r} : r \in fetch(terms) }
  IN  /\ s.pc = "thinking"
      /\ \E items \in results :
           IF Len(items) = 0
           THEN /\ user_data' = [user_data EXCEPT ![u].stage = "showing_result"]
                /\ slots' = [slots EXCEPT ![h].pc = "nores", ![h].fail = TRUE]
                /\ UNCHANGED <<USER_STATE, db>>
           ELSE LET meta == [kind |-> "search", terms |-> terms, taste |-> s.taste,
                             primary |-> primary,
                             city |-> IF kind = "place" THEN CityOf(u) ELSE None]
                    first == FirstCard(items, ud.last[kind])
                    category_for_msg ==
                      IF first.category # "" THEN first.category
                      ELSE IF s.taste # None THEN s.taste
                      ELSE DetectFromFields(ItemFields(kind, first.id))
                    rc == remember_context(USER_STATE, db, Locked, u, s.mode, category_for_msg,
                                           None, None, "search_" \o kind)
                IN  /\ user_data' = [user_data EXCEPT
                                       ![u] = [store_queue(ud, kind, items, meta) EXCEPT
                                                 !.taste = category_for_msg,
                                                 !.stage = "showing_result"]]
                    /\ USER_STATE' = rc.US
                    /\ db' = rc.db
                    /\ slots' = [slots EXCEPT ![h].pc = "card", ![h].kind = kind,
                                              ![h].item = first, ![h].fail = TRUE]
      /\ UNCHANGED <<chatOf, budget, conv, wtx, cards, ghost>>

\* -------------------------------------------------------- feedback: store
\* One more row with key k in a table kept as key -> number of rows.
AddRow(f, k) ==
  [x \in DOMAIN f \cup {k} |-> IF x = k THEN (IF k \in DOMAIN f THEN f[k] + 1 ELSE 1) ELSE f[x]]

\* The category apply_feedback records for a catalog row: its category field,
\* or detect_category_from_text(category, tags, keywords) when that is empty.
FeedbackCategory(kind, id) ==
  LET raw == IF kind = "recipe" THEN Recipes[id].category ELSE Restaurants[id].category
  IN  IF raw # "" THEN raw ELSE DetectFromFields(ItemFields(kind, id))

\* Faulty variant of UpsertTaste that replaces the row instead of adding to
\* it (INSERT OR REPLACE); C9_CountersMatchCalls must reject it.
UpsertTasteReplacing(t, k, liked) ==
  [x \in DOMAIN t \cup {k} |->
     IF x = k THEN [likes |-> IF liked THEN 1 ELSE 0, dislikes |-> IF liked THEN 0 ELSE 1]
     ELSE t[x]]

\* INSERT INTO user_tastes ... ON CONFLICT(chat_id, category) DO UPDATE
UpsertTaste(t, k, liked) ==
  LET old == IF k \in DOMAIN t THEN t[k] ELSE [likes |-> 0, dislikes |-> 0]
      new == [likes |-> old.likes + (IF liked THEN 1 ELSE 0),
              dislikes |-> old.dislikes + (IF liked THEN 0 ELSE 1)]
  IN  [x \in DOMAIN t \cup {k} |-> IF x = k THEN new ELSE t[x]]

\* increment_preference_feedback(chat_id, liked, conn=conn)
increment_preference_feedback(d, chat, liked) ==
  [d EXCEPT !.prefs[chat].liked_count = @ + (IF liked THEN 1 ELSE 0),
            !.prefs[chat].disliked_count = @ + (IF liked THEN 0 ELSE 1)]

\* Faulty variant of apply_feedback that raises the popularity on a dislike
\* as well; C19_LikeRaisesPopularity must reject it.
apply_feedback_counting_all(d, chat, kind, id, liked) ==
  LET category == FeedbackCategory(kind, id)
      d1 == IF category # None
            THEN [d EXCEPT !.history = AddRow(@, <<chat, id, liked>>),
                           !.tastes = UpsertTaste(@, <<chat, category>>, liked)]
            ELSE d
      d2 == IF kind = "recipe"
            THEN [d1 EXCEPT !.favorites = IF liked THEN AddRow(@, <<chat, id>>) ELSE @,
                            !.rlikes[id] = @ + 1]
            ELSE d1
  IN  increment_preference_feedback(d2, chat, liked)

\* apply_feedback(conn, chat_id, item, item_type, liked) on the tables d the
\* connection sees.
apply_feedback(d, chat, kind, id, liked) ==
  LET category == FeedbackCategory(kind, id)
      d1 == IF category # None
            THEN [d EXCEPT !.history = AddRow(@, <<chat, id, liked>>),
                           !.tastes = UpsertTaste(@, <<chat, category>>, liked)]
            ELSE d
      d2 == IF kind = "recipe"
            THEN [d1 EXCEPT !.favorites = IF liked THEN AddRow(@, <<chat, id>>) ELSE @,
                            !.rlikes[id] = @ + (IF liked THEN 1 ELSE 0)]
            ELSE d1
  IN  increment_preference_feedback(d2, chat, liked)

\* log_item_feedback(user_id, item_id, item_type, feedback_type, conn=conn)
log_item_feedback(d, u, id, feedback_type) ==
  [d EXCEPT !.feedback = AddRow(@, <<u, id, feedback_type>>)]

\* Faulty variant of top_taste without the threshold test;
\* C25_TopTasteThreshold must reject it.
top_taste_any(d, chat) ==
  LET rows == {k \in DOMAIN d.tastes : k[1] = chat}
      top == {k \in rows : \A j \in rows : d.tastes[k].likes >= d.tastes[j].likes}
  IN  IF rows = {} THEN {None} ELSE {k[2] : k \in top}

\* top_taste: the rows it can return (ORDER BY likes DESC LIMIT 1, then the
\* threshold test); None for no row.
top_taste(d, chat) ==
  LET rows == {k \in DOMAIN d.tastes : k[1] = chat}
      top == {k \in rows : \A j \in rows : d.tastes[k].likes >= d.tastes[j].likes}
  IN  IF rows = {} THEN {None}
      ELSE { IF d.tastes[k].likes >= 5 /\ d.tastes[k].likes > d.tastes[k].dislikes
             THEN k[2] ELSE None : k \in top }

\* Faulty variant of EndTx in which the history insert is not undone by the
\* rollback; C5_FeedbackAtomic must reject it.
EndTxKeepingHistory(h, ok) ==
  /\ slots' = [slots EXCEPT ![h] = Idle]
  /\ IF wtx.owner = h
     THEN /\ db' = IF ok THEN wtx.db ELSE [db EXCEPT !.history = wtx.db.history]
          /\ wtx' = NoTx
     ELSE UNCHANGED <<db, wtx>>

\* The end of feedback_handler's  with closing(get_conn()) as conn, conn:
\* block: commit on a normal exit, rollback when an exception leaves it.
EndTx(h, ok) ==
  /\ slots' = [slots EXCEPT ![h] = Idle]
  /\ IF wtx.owner = h
     THEN /\ db' = IF ok THEN wtx.db ELSE db
          /\ wtx' = NoTx
     ELSE UNCHANGED <<db, wtx>>

\* The first write statement on the handler's connection takes the store's
\* write lock; it fails after the busy timeout when another connection holds it.
CanWrite(h) == wtx.owner \in {0, h}
TxView(h) == IF wtx.owner = h THEN wtx.db ELSE db

\* --------------------------------------------------------------- next_item
\* next_item up to its first await, run by the handler in slot h on the
\* user_data ud: the cursor is advanced; the item at the cursor is shown, or
\* the queue is refilled from its meta with one item. Retrievals use their own
\* connections and see the committed tables.
next_item(h, ud) ==
  LET s == slots[h]
      u == s.u
      kind == s.kind
      chat == chatOf[u]
      ud1 == advance_queue(ud, kind)
      current == current_item(ud1, kind)
      ud2 == [ud1 EXCEPT !.skip = FALSE]
      meta == queue_meta(ud1, kind)
      explicit_category == ud1.selected
      city == IF meta.city # None THEN meta.city ELSE CityOf(u)
      OneOf(rs) == {IF Len(r) = 0 THEN NoItem ELSE r[1] : r \in rs}
      random == IF kind = "recipe"
                THEN fetch_random_recipe(db, chat, meta.taste, explicit_category)
                ELSE fetch_random_place(db, chat, city, meta.taste, explicit_category)
      fresh == IF meta.kind = "random" THEN random
               ELSE IF kind = "recipe"
               THEN OneOf(fetch_recipes(db, meta.terms, meta.taste, RefillLimit,
                                        meta.primary, explicit_category))
               ELSE OneOf(fetch_restaurants(db, city, meta.terms, meta.taste, RefillLimit,
                                            meta.primary, explicit_category))
      last_id == ud1.last[kind]
      Picks(new) == IF new.id # last_id THEN {new}
                    ELSE {alt \in random : alt # NoItem /\ alt.id # last_id}
                           \cup (IF \E alt \in random : alt = NoItem \/ alt.id = last_id
                                 THEN {new} ELSE {})
  IN  IF current # NoItem
      THEN /\ user_data' = [user_data EXCEPT ![u] = ud2]
           /\ slots' = [slots EXCEPT ![h].pc = "nxcard", ![h].item = current,
                                     ![h].fail = ~ud1.skip]
      ELSE \E new \in fresh :
             IF new = NoItem
             THEN /\ user_data' = [user_data EXCEPT ![u] = ud2]
                  /\ slots' = [slots EXCEPT ![h].pc = "nxnone", ![h].fail = TRUE]
             ELSE \E item \in Picks(new) :
                    /\ user_data' = [user_data EXCEPT
                                       ![u] = store_queue(ud2, kind, <<item>>, meta)]
                    /\ slots' = [slots EXCEPT ![h].pc = "nxcard", ![h].item = item,
                                              ![h].fail = FALSE]

\* -------------------------------------------------------- feedback_handler
Acts == {"like", "dislike", "next"}

\* A button of a card in the user's chat is pressed: the item is looked up
\* (by the card's id; for "next", the item at the user's cursor) and
\* query.answer is awaited. The slot keeps the button pressed (text) and the
\* branch taken (act: "noitem" when the lookup found nothing).
FeedbackEntry(u) ==
  /\ Deliver(u)
  /\ \E h \in H, card \in cards[chatOf[u]], act \in Acts :
       LET item == IF act = "next" THEN current_item(user_data[u], card[1])
                   ELSE fetch_by_id(card[1], card[2])
       IN  /\ NewSlot(h)
           /\ slots' = [slots EXCEPT ![h] =
                          [Idle EXCEPT !.op = "feedback_handler", !.u = u, !.pc = "answer",
                                       !.text = act,
                                       !.act = IF item = NoItem THEN "noitem" ELSE act,
                                       !.kind = card[1], !.id = card[2], !.item = item,
                                       !.fail = TRUE]]
  /\ UNCHANGED <<chatOf, conv, USER_STATE, user_data, db, wtx, cards, ghost>>

\* After query.answer: a like or dislike is written on the handler's
\* connection (apply_feedback, log_item_feedback), which opens the transaction
\* that stays open until the handler leaves the with block; remember_context
\* then writes through other connections, which the lock turns away.
FeedbackAnswered(h) ==
  LET s == slots[h]
      u == s.u
      written == log_item_feedback(
                   apply_feedback(TxView(h), chatOf[u], s.kind, s.item.id, s.act = "like"),
                   u, s.item.id, s.act)
      rc == remember_context(USER_STATE, db, TRUE, u, None, None, None, None, "feedback")
  IN  /\ s.pc = "answer"
      /\ \/ /\ slots' = [slots EXCEPT ![h] = Idle]
            /\ UNCHANGED <<USER_STATE, wtx>>
         \/ /\ s.act \in {"like", "dislike"}
            /\ IF CanWrite(h)
               THEN /\ wtx' = [owner |-> h, db |-> written]
                    /\ USER_STATE' = rc.US
                    /\ slots' = [slots EXCEPT ![h].pc = "edit"]
               ELSE /\ slots' = [slots EXCEPT ![h] = Idle]
                    /\ UNCHANGED <<USER_STATE, wtx>>
         \/ /\ s.act \in {"next", "noitem"}
            /\ slots' = [slots EXCEPT ![h].pc = "edit"]
            /\ UNCHANGED <<USER_STATE, wtx>>
      /\ UNCHANGED <<chatOf, budget, conv, user_data, db, cards, ghost>>

\* After edit_message_reply_markup(None): the card loses its buttons (the
\* transport rejects the edit of a card that has none left). A "next"
\* is logged now (the handler's first write) and next_item starts; the other
\* actions await their reply message.
FeedbackEdited(h) ==
  LET s == slots[h]
      u == s.u
      rc == remember_context(USER_STATE, db, TRUE, u, None, None, None, None, "feedback")
  IN  /\ s.pc = "edit"
      /\ \/ /\ EndTx(h, FALSE)
            /\ UNCHANGED <<USER_STATE, user_data, cards>>
         \/ /\ <<s.kind, s.id>> \in cards[chatOf[u]]
            /\ cards' = [cards EXCEPT ![chatOf[u]] = @ \ {<<s.kind, s.id>>}]
            /\ IF s.act = "next"
               THEN IF CanWrite(h)
                    THEN /\ wtx' = [owner |-> h,
                                    db |-> log_item_feedback(TxView(h), u, s.item.id, "next")]
                         /\ USER_STATE' = rc.US
                         /\ next_item(h, user_data[u])
                         /\ UNCHANGED db
                    ELSE /\ slots' = [slots EXCEPT ![h] = Idle]
                         /\ UNCHANGED <<USER_STATE, user_data, db, wtx>>
               ELSE /\ slots' = [slots EXCEPT ![h].pc = "message"]
                    /\ UNCHANGED <<USER_STATE, user_data, db, wtx>>
      /\ UNCHANGED <<chatOf, budget, conv, ghost>>

\* After the reply message(s) of a like, a dislike or a missing item, and
\* after the hint of maybe_send_hint: next_item starts. maybe_send_hint reads
\* top_taste on its own connection.
FeedbackSent(h) ==
  LET s == slots[h]
      u == s.u
      ud == user_data[u]
  IN  /\ s.pc \in {"message", "hint"}
      /\ \/ /\ EndTx(h, FALSE)
            /\ UNCHANGED user_data
         \/ /\ \E info \in top_taste(db, chatOf[u]) :
                 IF s.pc = "message" /\ s.act = "like" /\ info # None /\ info \notin ud.hinted
                 THEN /\ user_data' = [user_data EXCEPT ![u].hinted = @ \cup {info}]
                      /\ slots' = [slots EXCEPT ![h].pc = "hint"]
                 ELSE next_item(h, IF s.pc = "message" /\ s.act = "dislike"
                                   THEN [ud EXCEPT !.skip = TRUE] ELSE ud)
            /\ UNCHANGED <<db, wtx>>
      /\ UNCHANGED <<chatOf, budget, conv, USER_STATE, cards, ghost>>

\* The end of next_item and of the handler: the card is sent and the last
\* suggestion updated, or the "no more variants" message is sent; leaving the
\* with block commits, an exception on the way rolls back.
FeedbackNext(h) ==
  LET s == slots[h]
      u == s.u
  IN  /\ s.pc \in {"nxcard", "nxnone"}
      /\ \/ /\ s.fail
            /\ EndTx(h, FALSE)
            /\ UNCHANGED <<user_data, cards, ghost>>
         \/ /\ EndTx(h, TRUE)
            /\ IF s.pc = "nxcard"
               THEN /\ user_data' = [user_data EXCEPT
                                       ![u] = update_last_suggestion(@, s.kind, s.item.id)]
                    /\ cards' = [cards EXCEPT ![chatOf[u]] = @ \cup {<<s.kind, s.item.id>>}]
                    /\ ghost' = [ghost EXCEPT ![u][s.kind] = "next"]
               ELSE UNCHANGED <<user_data, cards, ghost>>
      /\ UNCHANGED <<chatOf, budget, conv, USER_STATE>>

\* ------------------------------------------------------------ specification
Next ==
  \/ \E u \in Users : Start(u)
  \/ \E u \in Users : ChooseMode(u)
  \/ \E u \in Users : HandleTaste(u)
  \/ \E u \in Users : HandleQuery(u)
  \/ \E u \in Users : FeedbackEntry(u)
  \/ \E h \in H : RandFetch(h)
  \/ \E h \in H : SendCard(h)
  \/ \E h \in H : NoResults(h)
  \/ \E h \in H : CategoryPrompt(h)
  \/ \E h \in H : QueryAck(h)
  \/ \E h \in H : QuerySearch(h)
  \/ \E h \in H : FeedbackAnswered(h)
  \/ \E h \in H : FeedbackEdited(h)
  \/ \E h \in H : FeedbackSent(h)
  \/ \E h \in H : FeedbackNext(h)

Spec == Init /\ [][Next]_vars

SpecConcurrent == InitConcurrent /\ [][Next]_vars

SpecShared == InitShared /\ [][Next]_vars

\* Cards sent before their catalog rows were deleted (restaurants: the admin
\* panel's restaurants page): the messages stay in the chat with their buttons.
StaleCards == {<<"recipe", "r0">>, <<"place", "p0">>}

InitStale ==
  /\ chatOf \in {[u \in Users |-> u], [u \in Users |-> GroupChat]}
  /\ budget = [u \in Users |-> IF u = "u1" THEN MaxStale ELSE 0]
  /\ conv = [u \in Users |-> "END"]
  /\ USER_STATE = [u \in Users |-> NoUserState]
  /\ user_data = [u \in Users |-> EmptyUserData]
  /\ db \in {InitDB, SavedDB}
  /\ wtx = NoTx
  /\ slots = [h \in H |-> IF h <= 1 THEN Idle ELSE Off]
  /\ cards = [c \in ChatIds |-> IF c = chatOf["u1"] THEN StaleCards ELSE {}]
  /\ ghost = [u \in Users |-> [k \in Kinds |-> None]]

SpecStale == InitStale /\ [][Next]_vars

\* ------------------------------------------------------ ai_feedback_callback
\* Faulty variant of update_taste_profile_from_text that drops the row on a
\* dislike; C27_PreferencesOnlyGrow must reject it.
update_taste_profile_dropping(d, chat, text, liked) ==
  LET category == detect_category_from_text(text)
      k == <<chat, category>>
  IN  IF category = None THEN d
      ELSE IF liked THEN [d EXCEPT !.tastes = UpsertTaste(@, k, liked)]
      ELSE [d EXCEPT !.tastes = [x \in DOMAIN @ \ {k} |-> @[x]]]

\* update_taste_profile_from_text(chat_id, text, liked): the upsert of
\* apply_feedback, on the category detected in the text.
update_taste_profile_from_text(d, chat, text, liked) ==
  LET category == detect_category_from_text(text)
  IN  IF category = None THEN d
      ELSE [d EXCEPT !.tastes = UpsertTaste(@, <<chat, category>>, liked)]

\* A like or dislike button under an answer of the AI collaborator, whose
\* session holds the question and the answer. The writes are committed on
\* connections of their own before the handler's replies; they raise when the
\* write lock is held. The row is keyed by the user's id.
AiFeedback(u) ==
  /\ Deliver(u)
  /\ \E h \in H : IsFree(h)
  /\ \E text \in Queries, liked \in BOOLEAN :
       db' = IF Locked THEN db ELSE update_taste_profile_from_text(db, u, text, liked)
  /\ UNCHANGED <<chatOf, conv, USER_STATE, user_data, wtx, slots, cards, ghost>>

\* The engine with the feedback on AI answers.
SpecEngine == Init /\ [][Next \/ \E u \in Users : AiFeedback(u)]_vars

\* ------------------------------------------------------ queue specification
\* store_queue, current_item and advance_queue on one user's queues; ghost
\* holds, per kind, what current_item returned since the last store_queue.
\* A venue queue is filled from fetch_restaurants, hence from the user's city.
QueueUser == "u1"

RECURSIVE SeqsUpTo(_, _)
SeqsUpTo(S, n) ==
  IF n = 0 THEN {<< >>}
  ELSE LET shorter == SeqsUpTo(S, n - 1)
       IN  shorter \cup {Append(q, x) : q \in {r \in shorter : Len(r) = n - 1}, x \in S}

InitQueue ==
  /\ chatOf = [u \in Users |-> u]
  /\ budget = [u \in Users |-> 0]
  /\ conv = [u \in Users |-> "END"]
  /\ USER_STATE = [u \in Users |-> NoUserState]
  /\ user_data = [u \in Users |-> EmptyUserData]
  /\ db = InitDB
  /\ wtx = NoTx
  /\ slots = [h \in H |-> Off]
  /\ cards = [c \in ChatIds |-> {}]
  /\ ghost = [k \in Kinds |-> << >>]

QueueStore(kind) ==
  \E ids \in SeqsUpTo(IF kind = "recipe" THEN RecipeIds
                       ELSE {p \in PlaceIds : Restaurants[p].city = CityOf(QueueUser)}, MaxK) :
    /\ user_data' = [user_data EXCEPT
                       ![QueueUser] = store_queue(@, kind,
                                                  [i \in DOMAIN ids |-> AsItem(kind, ids[i])],
                                                  [NoMeta EXCEPT !.kind = "search"])]
    /\ ghost' = [ghost EXCEPT ![kind] = << >>]
    /\ UNCHANGED <<chatOf, budget, conv, USER_STATE, db, wtx, slots, cards>>

\* One round: current_item, then advance_queue.
QueueRound(kind) ==
  LET ud == user_data[QueueUser]
  IN  /\ ud.bundle[kind].present
      /\ Len(ghost[kind]) < Len(ud.bundle[kind].items) + 2
      /\ ghost' = [ghost EXCEPT ![kind] = Append(@, current_item(ud, kind))]
      /\ user_data' = [user_data EXCEPT ![QueueUser] = advance_queue(ud, kind)]
      /\ UNCHANGED <<chatOf, budget, conv, USER_STATE, db, wtx, slots, cards>>

NextQueue ==
  \/ \E kind \in Kinds : QueueStore(kind)
  \/ \E kind \in Kinds : QueueRound(kind)

SpecQueue == InitQueue /\ [][NextQueue]_vars

\* ----------------------------------------- preference-tracker specification
\* apply_feedback applied to a store, one call after the other; ghost is the
\* sequence of the calls made.
InitRecord ==
  /\ chatOf = [u \in Users |-> u]
  /\ budget = [u \in Users |-> 0]
  /\ conv = [u \in Users |-> "END"]
  /\ USER_STATE = [u \in Users |-> NoUserState]
  /\ user_data = [u \in Users |-> EmptyUserData]
  /\ db = InitDB
  /\ wtx = NoTx
  /\ slots = [h \in H |-> Off]
  /\ cards = [c \in ChatIds |-> {}]
  /\ ghost = << >>

KindOf(id) == IF id \in RecipeIds THEN "recipe" ELSE "place"

Record(chat, id, liked) ==
  /\ Len(ghost) < MaxN
  /\ db' = apply_feedback(db, chat, KindOf(id), id, liked)
  /\ ghost' = Append(ghost, <<chat, id, liked>>)
  /\ UNCHANGED <<chatOf, budget, conv, USER_STATE, user_data, wtx, slots, cards>>

NextRecord == \E chat \in ChatIds, id \in ItemIds, liked \in BOOLEAN : Record(chat, id, liked)

SpecRecord == InitRecord /\ [][NextRecord]_vars

\* ------------------------------------------ category-resolution specification
\* resolve_random_category called once on a user_tastes table of one chat;
\* ghost holds the fallback argument and the category returned. Rows are what
\* the upsert of apply_feedback can leave: counters that are not both zero,
\* for fixed categories and for a catalog category outside the fixed four.
ResolveChat == "u1"
RowCategories == {"salty", "sweet", "bbq"}
Fallbacks == {None, "random", "salty", "bbq"}

TasteTables ==
  LET Cell == {[likes |-> l, dislikes |-> m] : l \in 0..MaxCount, m \in 0..MaxCount}
                \ {[likes |-> 0, dislikes |-> 0]}
  IN  UNION { [{<<ResolveChat, c>> : c \in cs} -> Cell] : cs \in SUBSET RowCategories }

InitResolve ==
  /\ chatOf = [u \in Users |-> u]
  /\ budget = [u \in Users |-> 0]
  /\ conv = [u \in Users |-> "END"]
  /\ USER_STATE = [u \in Users |-> NoUserState]
  /\ user_data = [u \in Users |-> EmptyUserData]
  /\ \E t \in TasteTables : db = [InitDB EXCEPT !.tastes = t]
  /\ wtx = NoTx
  /\ slots = [h \in H |-> Off]
  /\ cards = [c \in ChatIds |-> {}]
  /\ \E f \in Fallbacks : ghost = [fallback |-> f, called |-> FALSE, result |-> None]

Resolve ==
  /\ ~ghost.called
  /\ \E r \in resolve_random_category(db, ResolveChat, ghost.fallback) :
       ghost' = [ghost EXCEPT !.called = TRUE, !.result = r]
  /\ UNCHANGED <<chatOf, budget, conv, USER_STATE, user_data, db, wtx, slots, cards>>

NextResolve == Resolve

SpecResolve == InitResolve /\ [][NextResolve]_vars

\* ---------------------------------------------------- ranking specification
\* fetch_recipes and fetch_restaurants as functions of their arguments and of
\* the recipes' popularity: ghost holds the arguments of one call and the list
\* it returned.
RankTerms == {"cake", "spicy"}
RankTastes == {None, "random", "sweet", "spicy"}
RankSelected == {None, "sweet", "spicy"}
RankPrimary == {None, "cake", "pie"}
RankCities == {None, "Almaty", "Astana"}

RankCalls ==
  { [kind |-> k, city |-> c, terms |-> t, taste |-> ta, limit |-> l, primary |-> p,
     selected |-> sel, called |-> FALSE, result |-> << >>] :
      k \in Kinds, c \in RankCities, t \in SUBSET RankTerms, ta \in RankTastes,
      l \in 1..MaxLimit, p \in RankPrimary, sel \in RankSelected }

InitRank ==
  /\ chatOf = [u \in Users |-> u]
  /\ budget = [u \in Users |-> 0]
  /\ conv = [u \in Users |-> "END"]
  /\ USER_STATE = [u \in Users |-> NoUserState]
  /\ user_data = [u \in Users |-> EmptyUserData]
  /\ \E l \in [RecipeIds -> 0..1] : db = [InitDB EXCEPT !.rlikes = l]
  /\ wtx = NoTx
  /\ slots = [h \in H |-> Off]
  /\ cards = [c \in ChatIds |-> {}]
  /\ ghost \in {g \in RankCalls : g.kind = "recipe" => g.city = None}

RankRecipes ==
  /\ ~ghost.called /\ ghost.kind = "recipe"
  /\ \E r \in fetch_recipes(db, ghost.terms, ghost.taste, ghost.limit, ghost.primary,
                             ghost.selected) :
       ghost' = [ghost EXCEPT !.called = TRUE, !.result = r]
  /\ UNCHANGED <<chatOf, budget, conv, USER_STATE, user_data, db, wtx, slots, cards>>

RankRestaurants ==
  /\ ~ghost.called /\ ghost.kind = "place"
  /\ \E r \in fetch_restaurants(db, ghost.city, ghost.terms, ghost.taste, ghost.limit,
                                 ghost.primary, ghost.selected) :
       ghost' = [ghost EXCEPT !.called = TRUE, !.result = r]
  /\ UNCHANGED <<chatOf, budget, conv, USER_STATE, user_data, db, wtx, slots, cards>>

NextRank == RankRecipes \/ RankRestaurants

SpecRank == InitRank /\ [][NextRank]_vars

\* ------------------------------------------- repeat avoidance, step by step
\* The retry loops of send_random_recipe / send_random_place (surprise) and of
\* next_item (refill), one retrieval per step. ghost holds the call: the path,
\* the queue meta, the selected category, the last suggestion, the candidate
\* (item), the number of extra retrievals made (tries), whether every
\* retrieval so far returned the last suggestion (allLast), and the item
\* presented (shown).

\* The extra retrievals a path may make: range(3) in the surprise path, a
\* single alternative retrieval in the refill path.
RefillRetries == 1
RetryCeiling(path) == IF path = "surprise" THEN RandomRetries ELSE RefillRetries

InitRetry ==
  /\ chatOf = [u \in Users |-> u]
  /\ budget = [u \in Users |-> 0]
  /\ conv = [u \in Users |-> "END"]
  /\ USER_STATE = [u \in Users |-> NoUserState]
  /\ user_data = [u \in Users |-> EmptyUserData]
  /\ \E t \in { << >> } \cup { [k \in {<<ResolveChat, c>>} |-> [likes |-> 1, dislikes |-> 0]] :
                               c \in {"sweet", "spicy"} } :
       db = [InitDB EXCEPT !.tastes = t]
  /\ wtx = NoTx
  /\ slots = [h \in H |-> Off]
  /\ cards = [c \in ChatIds |-> {}]
  /\ \E p \in {"surprise", "refill"}, k \in Kinds, sel \in {None, "sweet", "spicy"},
        l \in {None} \cup RecipeIds \cup PlaceIds,
        m \in { [NoMeta EXCEPT !.kind = "random", !.taste = t] :
                  t \in {None, "sweet", "spicy"} }
               \cup { [NoMeta EXCEPT !.kind = "search", !.terms = {q}, !.taste = t,
                                     !.primary = q] :
                        q \in {"cake", "spicy"}, t \in {None, "sweet"} } :
       /\ p = "surprise" => m.kind = "random"
       /\ l # None => l \in (IF k = "recipe" THEN RecipeIds ELSE PlaceIds)
       /\ ghost = [path |-> p, kind |-> k, meta |-> m, selected |-> sel, last |-> l,
                   pc |-> "first", item |-> NoItem, tries |-> 0, allLast |-> TRUE,
                   shown |-> NoItem]

\* The random retrieval both paths repeat.
RetryRandom ==
  IF ghost.kind = "recipe"
  THEN fetch_random_recipe(db, ResolveChat, ghost.meta.taste, ghost.selected)
  ELSE fetch_random_place(db, ResolveChat, CityOf(ResolveChat), ghost.meta.taste, ghost.selected)

\* The first retrieval: the random one, or for a refill of a search queue the
\* ranked retrieval with limit 1.
RetryFirstResults ==
  LET m == ghost.meta
      OneOf(rs) == {IF Len(r) = 0 THEN NoItem ELSE r[1] : r \in rs}
  IN  IF m.kind = "random" THEN RetryRandom
      ELSE IF ghost.kind = "recipe"
      THEN OneOf(fetch_recipes(db, m.terms, m.taste, RefillLimit, m.primary, ghost.selected))
      ELSE OneOf(fetch_restaurants(db, CityOf(ResolveChat), m.terms, m.taste, RefillLimit,
                                   m.primary, ghost.selected))

\* Faulty variant of RetryKeep without the fallback to the candidate;
\* C21_RetryBounded must reject it.
RetryKeepNone(item, alt, last) ==
  IF alt # NoItem /\ alt.id # last THEN alt ELSE NoItem

\* The candidate after an extra retrieval returned alt: a different item
\* replaces it, an empty result or the last suggestion again leaves it.
RetryKeep(item, alt, last) ==
  IF alt # NoItem /\ alt.id # last THEN alt ELSE item

\* The first retrieval: nothing found ends the operation without an item; the
\* last suggestion again enters the retry loop; anything else is presented.
RetryFirst ==
  /\ ghost.pc = "first"
  /\ \E new \in RetryFirstResults :
       ghost' = [ghost EXCEPT !.item = new,
                              !.allLast = new # NoItem /\ new.id = ghost.last,
                              !.pc = IF new = NoItem THEN "none"
                                     ELSE IF new.id = ghost.last THEN "retry"
                                     ELSE "present"]
  /\ UNCHANGED <<chatOf, budget, conv, USER_STATE, user_data, db, wtx, slots, cards>>

\* One extra retrieval. The surprise loop leaves on an empty or different
\* result and after its last round; the refill makes its one retrieval.
RetryAgain ==
  /\ ghost.pc = "retry"
  /\ \E alt \in RetryRandom :
       LET n == ghost.tries + 1
           same == alt # NoItem /\ alt.id = ghost.last
           leave == ~same \/ ghost.path = "refill" \/ n = RetryCeiling(ghost.path)
       IN  ghost' = [ghost EXCEPT !.tries = n,
                                  !.item = RetryKeep(@, alt, ghost.last),
                                  !.allLast = @ /\ same,
                                  !.pc = IF leave THEN "present" ELSE "retry"]
  /\ UNCHANGED <<chatOf, budget, conv, USER_STATE, user_data, db, wtx, slots, cards>>

\* store_queue and the card of the candidate.
RetryPresent ==
  /\ ghost.pc = "present"
  /\ ghost' = [ghost EXCEPT !.shown = ghost.item, !.pc = "done"]
  /\ user_data' = [user_data EXCEPT
                     ![ResolveChat] = store_queue(@, ghost.kind, <<ghost.item>>, ghost.meta)]
  /\ UNCHANGED <<chatOf, budget, conv, USER_STATE, db, wtx, slots, cards>>

\* The loops are straight-line code between awaits that complete: a handler
\* that can take its next step takes it.
SpecRetry ==
  /\ InitRetry /\ [][RetryFirst \/ RetryAgain \/ RetryPresent]_vars
  /\ WF_vars(RetryFirst \/ RetryAgain \/ RetryPresent)

\* ------------------------------------------------ store writes under a lock
\* increment_preference_feedback and log_item_feedback of db.py, one attempt
\* per step. ghost holds the call: the function, whether the caller passed its
\* connection (conn: "given" as every call site of main.py does, None for the
\* function's own connections), the attempts made (tries), the lock conflicts
\* met, the last error and the rows written. Another connection (the admin
\* panel's, or another handler's open transaction) may hold the write lock.
WriteRetries == 3
OtherConn == MaxH + 1

InitWrite ==
  /\ chatOf = [u \in Users |-> u]
  /\ budget = [u \in Users |-> 0]
  /\ conv = [u \in Users |-> "END"]
  /\ USER_STATE = [u \in Users |-> NoUserState]
  /\ user_data = [u \in Users |-> EmptyUserData]
  /\ \E n \in 0..1 : db = [InitDB EXCEPT !.prefs[ResolveChat].liked_count = n]
  /\ \E o \in {0, OtherConn} : wtx = [owner |-> o, db |-> db]
  /\ slots = [h \in H |-> Off]
  /\ cards = [c \in ChatIds |-> {}]
  /\ \E f \in {"increment_preference_feedback", "log_item_feedback"},
        c \in {"given", None}, l \in BOOLEAN :
       ghost = [fn |-> f, conn |-> c, liked |-> l, pc |-> "call", tries |-> 0,
                conflicts |-> 0, err |-> None, writes |-> 0]

\* Another connection takes or releases the write lock.
OtherWriter ==
  /\ ghost.pc = "call"
  /\ wtx.owner \in {0, OtherConn}
  /\ wtx' = [wtx EXCEPT !.owner = IF @ = 0 THEN OtherConn ELSE 0]
  /\ UNCHANGED <<chatOf, budget, conv, USER_STATE, user_data, db, slots, cards, ghost>>

\* One _execute. On the caller's connection it is the whole call: the row is
\* written into the caller's transaction or the error propagates. On an own
\* connection the row is committed; a "locked" error before the last attempt
\* leads to the next attempt, any other error and the last one are raised.
WriteAttempt ==
  /\ ghost.pc = "call"
  /\ \E e \in {None, "locked", "other"} :
       LET n == ghost.tries + 1
           mine == IF ghost.conn = "given" THEN 1 ELSE 0
           d == IF wtx.owner = 1 THEN wtx.db ELSE db
           row == IF ghost.fn = "log_item_feedback"
                  THEN log_item_feedback(d, ResolveChat, "r1",
                                         IF ghost.liked THEN "like" ELSE "dislike")
                  ELSE increment_preference_feedback(d, ResolveChat, ghost.liked)
           again == ghost.conn = None /\ e = "locked" /\ n < WriteRetries
       IN  /\ (e = "locked") = (e # "other" /\ wtx.owner \notin {0, mine})
           /\ ghost' = [ghost EXCEPT !.tries = n, !.err = e,
                                     !.conflicts = @ + (IF e = "locked" THEN 1 ELSE 0),
                                     !.writes = @ + (IF e = None THEN 1 ELSE 0),
                                     !.pc = IF e = None THEN "done"
                                            ELSE IF again THEN "call" ELSE "raised"]
           /\ IF e # None THEN UNCHANGED <<db, wtx>>
              ELSE IF ghost.conn = "given"
              THEN wtx' = [owner |-> 1, db |-> row] /\ UNCHANGED db
              ELSE db' = row /\ UNCHANGED wtx
  /\ UNCHANGED <<chatOf, budget, conv, USER_STATE, user_data, slots, cards>>

SpecWrite == InitWrite /\ [][OtherWriter \/ WriteAttempt]_vars

\* ------------------------------------------------------ the proactive hint
\* Likes and dislikes of one user on a sweet and a spicy recipe, each followed
\* (for a like) by maybe_send_hint, and session resets in between. As in
\* feedback_handler, apply_feedback writes into the handler's transaction and
\* maybe_send_hint reads top_taste on its own connection, before the commit.
\* ghost holds the result of the last top_taste call (info), the parity of
\* the calls, per category the number of hint messages sent, whether the
\* session was reset after a hint (reset), and whether after such a reset a
\* call found its category already hinted (held).

\* Rows(t, k) of the taste table as counters.
HintCount(d, id, liked) ==
  LET k == <<chatOf[QueueUser], FeedbackCategory("recipe", id)>>
  IN  IF k \notin DOMAIN d.tastes THEN 0
      ELSE IF liked THEN d.tastes[k].likes ELSE d.tastes[k].dislikes

InitHint ==
  /\ chatOf = [u \in Users |-> u]
  /\ budget = [u \in Users |-> 0]
  /\ conv = [u \in Users |-> "END"]
  /\ USER_STATE = [u \in Users |-> NoUserState]
  /\ user_data = [u \in Users |-> EmptyUserData]
  /\ \E other \in {<< >>, [k \in {<<"u2", "salty">>} |-> [likes |-> MaxLikes, dislikes |-> 0]]} :
       db = [InitDB EXCEPT !.tastes = other]
  /\ wtx = NoTx
  /\ slots = [h \in H |-> Off]
  /\ cards = [c \in ChatIds |-> {}]
  /\ ghost = [pc |-> "idle", info |-> None, calls |-> 0,
              sent |-> [c \in {"sweet", "spicy"} |-> 0], reset |-> FALSE, held |-> FALSE]

\* A like or dislike button: apply_feedback on the handler's connection. A
\* dislike has no hint step; the handler commits.
HintFeedback ==
  /\ ghost.pc = "idle"
  /\ \E id \in {"r1", "r3"}, liked \in BOOLEAN :
       LET written == apply_feedback(db, chatOf[QueueUser], "recipe", id, liked)
       IN  /\ HintCount(db, id, liked) < MaxLikes
           /\ IF liked
              THEN /\ wtx' = [owner |-> 1, db |-> written]
                   /\ ghost' = [ghost EXCEPT !.pc = "hint"]
                   /\ UNCHANGED db
              ELSE /\ db' = written
                   /\ UNCHANGED <<wtx, ghost>>
  /\ UNCHANGED <<chatOf, budget, conv, USER_STATE, user_data, slots, cards>>

\* maybe_send_hint and the end of the handler: no row over the threshold or a
\* category already hinted sends nothing; otherwise the category is added to
\* hinted_categories and the message is sent, which may raise (rollback).
\* next_item then presents a card, which becomes the last suggestion.
HintMaybeSend ==
  /\ ghost.pc = "hint"
  /\ \E info \in top_taste(db, chatOf[QueueUser]), ok \in BOOLEAN, next \in {"r1", "r3"} :
       LET send == info # None /\ info \notin user_data[QueueUser].hinted
           ud == user_data[QueueUser]
           ud1 == IF send THEN [ud EXCEPT !.hinted = @ \cup {info}] ELSE ud
       IN  /\ ~send => ok
           /\ user_data' = [user_data EXCEPT
                              ![QueueUser] = IF ok THEN update_last_suggestion(ud1, "recipe", next)
                                            ELSE ud1]
           /\ ghost' = [ghost EXCEPT !.pc = "idle", !.info = info, !.calls = (@ + 1) % 2,
                                     !.sent = IF send /\ ok
                                              THEN [@ EXCEPT ![info] = @ + 1] ELSE @,
                                     !.held = @ \/ (ghost.reset /\ info # None /\ ~send)]
           /\ db' = IF ok THEN wtx.db ELSE db
           /\ wtx' = NoTx
  /\ UNCHANGED <<chatOf, budget, conv, USER_STATE, slots, cards>>

\* /start, the finish button and cancel: reset_session.
HintReset ==
  /\ ghost.pc = "idle"
  /\ user_data[QueueUser] # reset_session(user_data[QueueUser])
  /\ user_data' = [user_data EXCEPT ![QueueUser] = reset_session(@)]
  /\ ghost' = [ghost EXCEPT !.reset = @ \/ (\E c \in DOMAIN ghost.sent : ghost.sent[c] > 0)]
  /\ UNCHANGED <<chatOf, budget, conv, USER_STATE, db, wtx, slots, cards>>

SpecHint == InitHint /\ [][HintFeedback \/ HintMaybeSend \/ HintReset]_vars

\* ------------------------------------------------- the category classifier
\* resolve_category and detect_category_from_text on texts. A string is a
\* sequence of letter groups (transliterated; " " is the space, "dice" the
\* surprise emoji), so that Python's substring test `a in b` is IsSub(a, b).
\* The tables are excerpts of the source's tables in the source's order.
First(S) == CHOOSE i \in S : \A j \in S : i <= j

IsSub(a, b) == \E i \in 0..(Len(b) - Len(a)) : SubSeq(b, i + 1, i + Len(a)) = a

TASTE_TOKENS ==
  << [cat |-> "sweet", token |-> <<"tort">>],
     [cat |-> "salty", token |-> <<"so", "l">>],
     [cat |-> "salty", token |-> <<"tako">>],
     [cat |-> "spicy", token |-> <<"ostr">>],
     [cat |-> "spicy", token |-> <<"tom", " ", "yam">>],
     [cat |-> "healthy", token |-> <<"salat">>] >>

CATEGORY_HINTS ==
  << [hint |-> <<"tort">>, cat |-> "sweet"],
     [hint |-> <<"kofe">>, cat |-> "sweet"],
     [hint |-> <<"tom", " ", "yam">>, cat |-> "spicy"],
     [hint |-> <<"spaisi">>, cat |-> "spicy"],
     [hint |-> <<"ostr", "oe">>, cat |-> "spicy"],
     [hint |-> <<"tako">>, cat |-> "salty"],
     [hint |-> <<"salat">>, cat |-> "healthy"] >>

\* SYNONYMS: "sup" -> borsch, tom yam; "kofe" -> kofeinya, latte, desert;
\* "kofeinya" -> kofe, desert, sweet.
SYNONYMS ==
  [w \in {<<"sup">>, <<"kofe">>, <<"kofe", "inya">>} |->
     IF w = <<"sup">> THEN << <<"borsch">>, <<"tom", " ", "yam">> >>
     ELSE IF w = <<"kofe">> THEN << <<"kofe", "inya">>, <<"latte">>, <<"desert">> >>
     ELSE << <<"kofe">>, <<"desert">>, <<"sweet">> >>]

\* resolve_category(text) on a normalized text.
resolve_category_of(t) ==
  LET hits == {i \in DOMAIN TASTE_TOKENS : IsSub(TASTE_TOKENS[i].token, t)}
  IN  IF t = << >> THEN None
      ELSE IF IsSub(<<"dice">>, t) THEN "random"
      ELSE IF hits # {} THEN TASTE_TOKENS[First(hits)].cat
      ELSE None

\* Faulty variant of detect_category_from_text that answers "random" for the
\* surprise emoji as resolve_category does; C28_ClassifierRange must reject
\* it.
detect_category_with_random(t) ==
  IF IsSub(<<"dice">>, t) THEN "random" ELSE None

\* detect_category_from_text(text): the taste tokens on the text without
\* spaces, the hints on the full text, then word by word the hints on the
\* word and on the word's synonyms.
detect_category_of(t) ==
  LET compact == SelectSeq(t, LAMBDA x : x # " ")
      tokens == {i \in DOMAIN TASTE_TOKENS :
                   IsSub(SelectSeq(TASTE_TOKENS[i].token, LAMBDA x : x # " "), compact)}
      Hint(s) == LET hits == {i \in DOMAIN CATEGORY_HINTS : IsSub(CATEGORY_HINTS[i].hint, s)}
                 IN  IF hits = {} THEN None ELSE CATEGORY_HINTS[First(hits)].cat
      starts == {i \in 1..Len(t) : t[i] # " " /\ (i = 1 \/ t[i - 1] = " ")}
      Word(i) == SubSeq(t, i, First({j \in i..Len(t) : j = Len(t) \/ t[j + 1] = " "}))
      Syn(w) == IF w \in DOMAIN SYNONYMS
                THEN LET hits == {i \in DOMAIN SYNONYMS[w] : Hint(SYNONYMS[w][i]) # None}
                     IN  IF hits = {} THEN None ELSE Hint(SYNONYMS[w][First(hits)])
                ELSE None
      OfWord(w) == IF Hint(w) # None THEN Hint(w) ELSE Syn(w)
      words == {i \in starts : OfWord(Word(i)) # None}
  IN  IF compact = << >> THEN None
      ELSE IF tokens # {} THEN TASTE_TOKENS[First(tokens)].cat
      ELSE IF Hint(t) # None THEN Hint(t)
      ELSE IF words # {} THEN OfWord(Word(First(words)))
      ELSE None

\* One text of up to MaxWords words, classified by both functions, and the
\* category apply_feedback records for a catalog row whose category field is
\* raw and whose tags are the text; ghost holds the inputs and the results.
InitClassify ==
  LET Vocabulary == { <<"tort">>, <<"ostr", "oe">>, <<"kofe">>, <<"spaisi">>, <<"sup">>,
                      <<"tom">>, <<"yam">>, <<"tako">>, <<"salat">>, <<"plov">>, <<"dice">>,
                      <<"so">>, <<"l", "dom">> }
      RECURSIVE Join(_)
      Join(ws) == IF Len(ws) = 0 THEN << >>
                  ELSE IF Len(ws) = 1 THEN ws[1]
                  ELSE ws[1] \o <<" ">> \o Join(Tail(ws))
  IN  /\ chatOf = [u \in Users |-> u]
      /\ budget = [u \in Users |-> 0]
      /\ conv = [u \in Users |-> "END"]
      /\ USER_STATE = [u \in Users |-> NoUserState]
      /\ user_data = [u \in Users |-> EmptyUserData]
      /\ db = InitDB
      /\ wtx = NoTx
      /\ slots = [h \in H |-> Off]
      /\ cards = [c \in ChatIds |-> {}]
      /\ \E n \in 0..MaxWords : \E ws \in [1..n -> Vocabulary] :
           \E raw \in DEFAULT_TASTES \cup {""} :
             ghost = [text |-> Join(ws), raw |-> raw, called |-> FALSE,
                      resolved |-> None, detected |-> None, recorded |-> None]

Classify ==
  /\ ~ghost.called
  /\ ghost' = [ghost EXCEPT !.called = TRUE,
                            !.resolved = resolve_category_of(ghost.text),
                            !.detected = detect_category_of(ghost.text),
                            !.recorded = IF ghost.raw # "" THEN ghost.raw
                                         ELSE detect_category_of(ghost.text)]
  /\ UNCHANGED <<chatOf, budget, conv, USER_STATE, user_data, db, wtx, slots, cards>>

SpecClassify == InitClassify /\ [][Classify]_vars

\* ---------------------------------------------------------- the term expander
\* normalize and expand_terms on texts (sequences of letter groups; "KOFE" is
\* "kofe" in upper case, "a" the ending that expand_terms strips).
\* normalize(text): lower case, no leading or trailing space, every run of
\* spaces one space.
normalize_of(text) ==
  LET low == [i \in DOMAIN text |-> IF text[i] = "KOFE" THEN "kofe" ELSE text[i]]
      keep == {i \in DOMAIN low :
                 \/ low[i] # " "
                 \/ /\ i > 1 /\ low[i - 1] # " "
                    /\ \E j \in DOMAIN low : j > i /\ low[j] # " "}
  IN  [k \in 1..Cardinality(keep) |->
         low[CHOOSE i \in keep : Cardinality({j \in keep : j <= i}) = k]]

\* Faulty variant of expand_terms that returns the terms without dropping the
\* empty ones; C33_TermsHoldInput must reject it.
expand_terms_unfiltered(query, readable) ==
  LET base == normalize_of(query)
      body == {i \in DOMAIN base : \E j \in i..Len(base) : base[j] # "a"}
  IN  IF base = << >> THEN {}
      ELSE {base} \cup (IF base[Len(base)] = "a"
                        THEN {SubSeq(base, 1, Cardinality(body))} ELSE {})

\* expand_terms(query): the normalized text, the groups of SYNONYMS, the words
\* of the text, the text without its ending, and, when the store can be read
\* (readable), the rows of its synonyms table, which ensure_synonyms filled
\* from SYNONYMS.
expand_terms_of(query, readable) ==
  LET base == normalize_of(query)
      Group(key) == {SYNONYMS[key][i] : i \in DOMAIN SYNONYMS[key]}
      memory == UNION { (IF IsSub(key, base) \/ base = key THEN Group(key) ELSE {})
                        \cup (IF base \in Group(key) THEN {key} \cup Group(key) ELSE {})
                        : key \in DOMAIN SYNONYMS }
      starts == {i \in 1..Len(base) : base[i] # " " /\ (i = 1 \/ base[i - 1] = " ")}
      words == { SubSeq(base, i, First({j \in i..Len(base) :
                                          j = Len(base) \/ base[j + 1] = " "})) : i \in starts }
      body == {i \in DOMAIN base : \E j \in i..Len(base) : base[j] # "a"}
      stripped == IF base[Len(base)] = "a"
                  THEN {SubSeq(base, 1, Cardinality(body))} ELSE {}
      rows == UNION { IF \/ IsSub(word, base) \/ IsSub(base, word)
                         \/ base \in Group(word)
                      THEN {word} \cup Group(word) ELSE {} : word \in DOMAIN SYNONYMS }
      terms == {base} \cup memory \cup words \cup stripped
                 \cup (IF readable THEN rows ELSE {})
  IN  IF base = << >> THEN {} ELSE {t \in terms : t # << >>}

\* One text of up to MaxChars letter groups is expanded, with the store's
\* synonyms table readable or not; ghost holds the call and its results.
InitExpand ==
  /\ chatOf = [u \in Users |-> u]
  /\ budget = [u \in Users |-> 0]
  /\ conv = [u \in Users |-> "END"]
  /\ USER_STATE = [u \in Users |-> NoUserState]
  /\ user_data = [u \in Users |-> EmptyUserData]
  /\ db = InitDB
  /\ wtx = NoTx
  /\ slots = [h \in H |-> Off]
  /\ cards = [c \in ChatIds |-> {}]
  /\ \E n \in 0..MaxChars :
       \E query \in [1..n -> {" ", "kofe", "KOFE", "inya", "sup", "latte", "a"}] :
         \E readable \in BOOLEAN :
           ghost = [query |-> query, readable |-> readable, called |-> FALSE,
                    base |-> << >>, terms |-> {}]

Expand ==
  /\ ~ghost.called
  /\ ghost' = [ghost EXCEPT !.called = TRUE,
                            !.base = normalize_of(ghost.query),
                            !.terms = expand_terms_of(ghost.query, ghost.readable)]
  /\ UNCHANGED <<chatOf, budget, conv, USER_STATE, user_data, db, wtx, slots, cards>>

SpecExpand == InitExpand /\ [][Expand]_vars

\* --------------------------------------------------- retrieval within a city
\* fetch_restaurants and fetch_random_place called with a city: the search
\* retrieval (and its second pass without terms), the surprise retrieval and
\* the refill retrievals of next_item are these two calls. ghost holds the
\* call and its result. "Aktau" is a city with no row in the catalog.
InitCity ==
  LET cities == {None, "Almaty", "Astana", "Aktau"}
      search == { [kind |-> "place", city |-> c, terms |-> t, taste |-> ta, limit |-> l,
                   primary |-> p, selected |-> sel, called |-> FALSE, result |-> << >>] :
                    c \in cities, t \in SUBSET RankTerms, ta \in RankTastes,
                    l \in 1..MaxLimit, p \in RankPrimary, sel \in RankSelected }
      surprise == { [kind |-> "surprise", city |-> c, taste |-> ta, selected |-> sel,
                     called |-> FALSE, result |-> NoItem] :
                      c \in cities, ta \in RankTastes, sel \in RankSelected }
  IN  /\ chatOf = [u \in Users |-> u]
      /\ budget = [u \in Users |-> 0]
      /\ conv = [u \in Users |-> "END"]
      /\ USER_STATE = [u \in Users |-> NoUserState]
      /\ user_data = [u \in Users |-> EmptyUserData]
      /\ db = InitDB
      /\ wtx = NoTx
      /\ slots = [h \in H |-> Off]
      /\ cards = [c \in ChatIds |-> {}]
      /\ ghost \in search \cup surprise

CityRandomPlace ==
  /\ ~ghost.called /\ ghost.kind = "surprise"
  /\ \E r \in fetch_random_place(db, ResolveChat, ghost.city, ghost.taste, ghost.selected) :
       ghost' = [ghost EXCEPT !.called = TRUE, !.result = r]
  /\ UNCHANGED <<chatOf, budget, conv, USER_STATE, user_data, db, wtx, slots, cards>>

SpecCity == InitCity /\ [][RankRestaurants \/ CityRandomPlace]_vars

\* ================================================================== claims
\* Rows(f, k): the number of rows with key k in a table kept as key -> count.
Rows(f, k) == IF k \in DOMAIN f THEN f[k] ELSE 0

RECURSIVE SumRows(_, _)
SumRows(f, keys) ==
  IF keys = {} THEN 0
  ELSE LET k == CHOOSE k \in keys : TRUE IN Rows(f, k) + SumRows(f, keys \ {k})

\* A handler of user u is suspended at an await.
InFlight(u) == \E h \in H : slots[h].u = u

\* --- C1: after any sequence of store_queue, advance_queue, next_item and
\* feedback events the cursor of every (user, kind) queue satisfies
\* 0 <= index <= len(items), also after repeated next actions that follow a
\* refill which found no item.
C1_CursorInBounds ==
  \A u \in Users, k \in Kinds :
    LET b == user_data[u].bundle[k]
    IN  b.present => (0 <= b.index /\ b.index <= Len(b.items))

\* --- C2: every operation that sets PROCESSING_RANDOM or PROCESSING_CATEGORY
\* leaves the flag false when its handler exits, on every exit path (card
\* sent, empty retrieval, a send or store call raised): a user with no
\* handler in flight has both flags false.
C2_FlagsClearedOnExit ==
  \A u \in Users :
    ~InFlight(u) => (~USER_STATE[u].processing_random /\ ~USER_STATE[u].processing_category)

\* --- C3: a handler enters the surprise path only in a step that finds
\* PROCESSING_RANDOM false and leaves it true (test and set in one step, no
\* suspension between them); a surprise request that arrives while the flag
\* is set returns at once: it suspends no handler, stores no queue, changes
\* no last suggestion and sends no card.
SurpriseRequest(u) ==
  /\ budget'[u] = budget[u] - 1
  /\ \E h \in H :
       /\ NewSlot(h)
       /\ \/ conv[u] = "CHOOSE_MODE" /\ ChooseModeRandom(u, h)
          \/ conv[u] = "CHOOSE_TASTE" /\ HandleTasteText(u, h, CONTROL_RANDOM)
          \/ conv[u] = "ASK_QUERY" /\ HandleQueryText(u, h, CONTROL_RANDOM)

C3_SurpriseTestAndSet ==
  [][ /\ \A h \in H :
           (slots'[h].pc = "react" /\ slots[h].pc # "react")
             => (/\ ~USER_STATE[slots'[h].u].processing_random
                 /\ USER_STATE'[slots'[h].u].processing_random)
      /\ \A u \in Users :
           (USER_STATE[u].processing_random /\ SurpriseRequest(u))
             => (/\ slots' = slots
                 /\ user_data'[u].bundle = user_data[u].bundle
                 /\ user_data'[u].last = user_data[u].last
                 /\ cards' = cards
                 /\ USER_STATE'[u].processing_random) ]_vars

\* A surprise request returned ASK_QUERY at once while the choose_mode handler
\* that set the flag is still suspended before its retrieval.
C3_Witness ==
  \E h \in H :
    /\ slots[h].op = "choose_mode" /\ slots[h].pc = "react"
    /\ USER_STATE[slots[h].u].processing_random
    /\ conv[slots[h].u] = "ASK_QUERY"

\* --- C4: no handler holds the store's write lock across a suspension point:
\* whenever a handler is suspended at an await (the transport, a delay,
\* next_item), it has no write transaction open.
C4_NoLockAcrossAwait ==
  \A h \in H : slots[h].op # "idle" => wtx.owner # h

\* --- C5: the history insert, the preference-counter upsert, the favorite
\* insert and the popularity increment of a like or dislike take effect
\* together or not at all: in the committed store every counter equals the
\* number of history rows it stands for, whether handlers ended normally or
\* by an error.
Consistent(d) ==
  /\ \A chat \in ChatIds, cat \in DEFAULT_TASTES :
       LET ids == {id \in ItemIds : FeedbackCategory(KindOf(id), id) = cat}
           n == SumRows(d.history, {<<chat, id, TRUE>> : id \in ids})
           m == SumRows(d.history, {<<chat, id, FALSE>> : id \in ids})
       IN  IF n + m = 0 THEN <<chat, cat>> \notin DOMAIN d.tastes
           ELSE /\ <<chat, cat>> \in DOMAIN d.tastes
                /\ d.tastes[<<chat, cat>>] = [likes |-> n, dislikes |-> m]
  /\ \A chat \in ChatIds, id \in RecipeIds :
       Rows(d.favorites, <<chat, id>>) = Rows(d.history, <<chat, id, TRUE>>)
  /\ \A id \in RecipeIds :
       d.rlikes[id] = SumRows(d.history, {<<chat, id, TRUE>> : chat \in ChatIds})

C5_FeedbackAtomic == Consistent(db)

\* A liked recipe is committed: history row, counter, favorite and popularity.
C5_Witness ==
  \E chat \in ChatIds, id \in RecipeIds :
    /\ wtx.owner = 0
    /\ Rows(db.history, <<chat, id, TRUE>>) >= 1
    /\ Rows(db.favorites, <<chat, id>>) >= 1
    /\ db.rlikes[id] >= 1
    /\ \E cat \in DEFAULT_TASTES : <<chat, cat>> \in DOMAIN db.tastes

\* --- C6: when the catalog holds at least 2 items of the requested category
\* (venues: in the user's city), two consecutive surprise-me requests of one
\* user for one kind never present the same item: a surprise retrieval that
\* follows a surprise card of the same kind and category settles on an item
\* other than the last suggestion.
Matching(kind, category, city) ==
  IF kind = "recipe" THEN {id \in RecipeIds : Recipes[id].category = category}
  ELSE {id \in PlaceIds : Restaurants[id].category = category /\ Restaurants[id].city = city}

C6_NoRepeatedSurprise ==
  [][ \A h \in H :
        LET s == slots[h]
            t == slots'[h]
            kind == ItemType(s.mode)
        IN  ( /\ s.pc = "react" /\ t.pc = "card"
              /\ ghost[s.u][kind] = "surprise"
              /\ user_data[s.u].bundle[kind].meta.taste = t.item.category
              /\ Cardinality(Matching(kind, t.item.category, CityOf(s.u))) >= 2 )
            => t.item.id # user_data[s.u].last[kind] ]_vars

\* --- C7: after store_queue with K items the i-th of K successive
\* current_item + advance_queue rounds returns items[i], and current_item
\* returns none at cursor K and at any greater cursor, without an index fault.
C7_QueueRounds ==
  \A k \in Kinds :
    LET b == user_data[QueueUser].bundle[k]
    IN  b.present =>
          /\ b.index = Len(ghost[k])
          /\ \A i \in 1..Len(ghost[k]) :
               ghost[k][i] = IF i <= Len(b.items) THEN b.items[i] ELSE NoItem

\* A queue of MaxK items was walked to its end and read twice more.
C7_Witness ==
  \E k \in Kinds :
    LET b == user_data[QueueUser].bundle[k]
    IN  b.present /\ Len(b.items) = MaxK /\ Len(ghost[k]) = MaxK + 2

\* --- C8: when next_item finds no item at the cursor it retrieves with the
\* parameters recorded in the queue's meta (search: terms, category, primary
\* phrase; random: one random pick of the recorded category), whatever the
\* user's selected category has become since, and stores exactly that one
\* item with cursor 0 and the same meta.
RecordedRefill(d, chat, kind, meta, city, last_id) ==
  LET OneOf(rs) == {IF Len(r) = 0 THEN NoItem ELSE r[1] : r \in rs}
      random(sel) == IF kind = "recipe" THEN fetch_random_recipe(d, chat, meta.taste, sel)
                     ELSE fetch_random_place(d, chat, city, meta.taste, sel)
      fresh(sel) == IF meta.kind = "random" THEN random(sel)
                    ELSE IF kind = "recipe"
                    THEN OneOf(fetch_recipes(d, meta.terms, meta.taste, RefillLimit,
                                             meta.primary, sel))
                    ELSE OneOf(fetch_restaurants(d, city, meta.terms, meta.taste, RefillLimit,
                                                 meta.primary, sel))
      picks(sel) == UNION { IF new = NoItem \/ new.id # last_id THEN {new}
                            ELSE {new} \cup {alt \in random(sel) : alt # NoItem}
                            : new \in fresh(sel) }
  IN  {x.id : x \in picks(None) \cup picks(meta.taste)}

C8_RefillFromMeta ==
  [][ \A h \in H :
        LET s == slots[h]
            t == slots'[h]
            ud == user_data[s.u]
            b == advance_queue(ud, s.kind).bundle[s.kind]
            meta == b.meta
            city == IF meta.city # None THEN meta.city ELSE CityOf(s.u)
            out == IF t.pc = "nxcard" THEN t.item.id ELSE NoItem.id
        IN  ( /\ s.op = "feedback_handler" /\ s.pc \in {"edit", "message", "hint"}
              /\ t.pc \in {"nxcard", "nxnone"}
              /\ b.present
              /\ current_item(advance_queue(ud, s.kind), s.kind) = NoItem )
            => /\ out \in RecordedRefill(db, chatOf[s.u], s.kind, meta, city, ud.last[s.kind])
               /\ t.pc = "nxcard" =>
                    LET nb == user_data'[s.u].bundle[s.kind]
                    IN  /\ nb.present /\ nb.index = 0 /\ nb.meta = meta
                        /\ Len(nb.items) = 1 /\ nb.items[1].id = out ]_vars

\* --- C9: the (user, category) counters are non-negative integers; after N
\* likes and M dislikes on items of one category by one user, with no other
\* feedback source, likes = N and dislikes = M; the row exists from the first
\* event on.
CallCount(chat, category, liked) ==
  Cardinality({i \in 1..Len(ghost) :
                 /\ ghost[i][1] = chat /\ ghost[i][3] = liked
                 /\ FeedbackCategory(KindOf(ghost[i][2]), ghost[i][2]) = category})

C9_CountersMatchCalls ==
  \A chat \in ChatIds, category \in DEFAULT_TASTES :
    LET n == CallCount(chat, category, TRUE)
        m == CallCount(chat, category, FALSE)
    IN  /\ \A k \in DOMAIN db.tastes :
             db.tastes[k].likes \in Nat /\ db.tastes[k].dislikes \in Nat
        /\ IF n + m = 0 THEN <<chat, category>> \notin DOMAIN db.tastes
           ELSE /\ <<chat, category>> \in DOMAIN db.tastes
                /\ db.tastes[<<chat, category>>].likes = n
                /\ db.tastes[<<chat, category>>].dislikes = m

\* Two likes and one dislike were recorded on one counter row.
C9_Witness ==
  \E k \in DOMAIN db.tastes :
    /\ Len(ghost) = MaxN
    /\ db.tastes[k].likes = 2 /\ db.tastes[k].dislikes = 1

\* --- C10: an operation performed for one user leaves every other user's
\* preference counters, suggestion queue, last suggestion and busy flags
\* unchanged, also when the two users act in the same chat.
PeerState(d, cof, ud, US, v) ==
  <<[k \in {x \in DOMAIN d.tastes : x[1] = cof[v]} |-> d.tastes[k]],
    ud[v].bundle, ud[v].last, US[v].processing_random, US[v].processing_category>>

ActsFor(u) ==
  \/ budget'[u] # budget[u]
  \/ \E h \in H : slots'[h] # slots[h] /\ (slots[h].u = u \/ slots'[h].u = u)

C10_OtherUsersUntouched ==
  [][ \A u \in Users : ActsFor(u) =>
        \A v \in Users \ {u} :
          PeerState(db', chatOf', user_data', USER_STATE', v)
            = PeerState(db, chatOf, user_data, USER_STATE, v) ]_vars

\* The reference of C11: the categories the resolution may return.
Score(row) == row.likes - row.dislikes

ResolveReference(t, chat, fallback) ==
  IF fallback \notin {None, "random"} THEN {fallback}
  ELSE LET rows == {k \in DOMAIN t : k[1] = chat}
           tops == {k \in rows : \A j \in rows : Score(t[k]) >= Score(t[j])}
       IN  IF \E k \in tops : t[k].likes >= 1 /\ Score(t[k]) >= 0
           THEN {k[2] : k \in {x \in tops : t[x].likes >= 1 /\ Score(t[x]) >= 0}}
           ELSE DEFAULT_TASTES

CatalogCategory(kind, id) ==
  IF kind = "recipe" THEN Recipes[id].category ELSE Restaurants[id].category

C12_SelectedNeverWidens ==
  [][ \A u \in Users, k \in Kinds :
        LET selected == user_data[u].selected
            items == user_data'[u].bundle[k].items
        IN  ( /\ selected # None
              /\ user_data'[u].bundle[k] # user_data[u].bundle[k]
              /\ user_data'[u].bundle[k].index = 0 )
            => \A i \in DOMAIN items : CatalogCategory(k, items[i].id) = selected ]_vars

\* A retrieval for a selected category found an item and is about to show it.
C12_Witness ==
  \E h \in H :
    /\ slots[h].pc = "card"
    /\ user_data[slots[h].u].selected # None
    /\ CatalogCategory(slots[h].kind, slots[h].item.id) = user_data[slots[h].u].selected

\* The rows that pass the term filter and the locality filter of a ranker call.
Filtered(g) ==
  IF g.kind = "recipe"
  THEN {id \in RecipeIds : g.terms = {} \/ g.terms \cap RecipeFields(id) # {}}
  ELSE {id \in PlaceIds : /\ g.city = None \/ Restaurants[id].city = g.city
                          /\ g.terms = {} \/ g.terms \cap PlaceFields(id) # {}}

\* The category occurs in the row's category, tags, keywords or (venues) cuisine.
Mentions(kind, id, c) ==
  IF kind = "recipe"
  THEN c = Recipes[id].category \/ c \in Recipes[id].tags \cup Recipes[id].keywords
  ELSE c = Restaurants[id].category
         \/ c \in Restaurants[id].tags \cup Restaurants[id].keywords \cup Restaurants[id].cuisine

\* The call infers its category from the taste and its exact filter has no row.
InferredAndEmpty(g) ==
  /\ g.selected = None /\ g.taste \notin {None, "random"}
  /\ \A id \in Filtered(g) : CatalogCategory(g.kind, id) # g.taste

\* --- C13: when the category is inferred and the exact category filter has no
\* row, the ranker returns the rows that mention the category in category,
\* tags, keywords or cuisine, still under the term filter, the locality filter
\* and the limit of the call.
C13_WideningKeepsFilters ==
  (ghost.called /\ InferredAndEmpty(ghost)) =>
     LET wide == {id \in Filtered(ghost) : Mentions(ghost.kind, id, ghost.taste)}
         got == {ghost.result[i].id : i \in DOMAIN ghost.result}
     IN  /\ got \subseteq wide
         /\ Len(ghost.result) = Min(ghost.limit, Cardinality(wide))
         /\ Cardinality(got) = Len(ghost.result)

\* A widened venue retrieval under a term and a city returned a row matched by
\* its tags only, while another row mentions the category in another city.
C13_Witness ==
  /\ ghost.called /\ InferredAndEmpty(ghost)
  /\ ghost.kind = "place" /\ ghost.city = "Astana" /\ ghost.terms = {"cake"}
  /\ Len(ghost.result) = 1 /\ ghost.result[1].id = "p4"

\* Match score of a row for the primary phrase, and its popularity (recipes)
\* or rating (venues).
MatchScore(kind, id, primary) ==
  LET row == IF kind = "recipe" THEN Recipes[id] ELSE Restaurants[id]
      name == IF kind = "recipe" THEN row.title ELSE row.name
  IN  IF primary = None THEN 0
      ELSE IF primary \in name THEN 3
      ELSE IF primary \in row.tags THEN 2
      ELSE IF primary \in row.keywords THEN 1
      ELSE 0

Popularity(kind, id) == IF kind = "recipe" THEN db.rlikes[id] ELSE Restaurants[id].rating

\* --- C15: every call of a ranker returns at most `limit` items, and the list
\* is non-increasing in (match score, popularity or rating) lexicographically.
C15_RankedWithinLimit ==
  ghost.called =>
    /\ Len(ghost.result) <= ghost.limit
    /\ \A i, j \in DOMAIN ghost.result :
         i < j =>
           LET a == ghost.result[i].id
               b == ghost.result[j].id
               sa == MatchScore(ghost.kind, a, ghost.primary)
               sb == MatchScore(ghost.kind, b, ghost.primary)
           IN  \/ sa > sb
               \/ sa = sb /\ Popularity(ghost.kind, a) >= Popularity(ghost.kind, b)

\* A venue list cut by its limit in which a better match stands before a
\* venue of higher rating.
C15_Witness ==
  /\ ghost.called /\ ghost.kind = "place"
  /\ Len(ghost.result) = ghost.limit /\ ghost.limit = 2
  /\ MatchScore("place", ghost.result[1].id, ghost.primary)
       > MatchScore("place", ghost.result[2].id, ghost.primary)
  /\ Restaurants[ghost.result[1].id].rating < Restaurants[ghost.result[2].id].rating

\* The handler in slot h has just had an empty retrieval: in a search or a
\* surprise ("nores", where handle_no_results runs next) or in the refill of
\* next_item ("nxnone", where the "no more variants" message is sent next).
EmptyRetrieval(h) == slots[h].pc \in {"nores", "nxnone"}

\* --- C16: whenever a retrieval returns empty, in a search, in a surprise and
\* in a queue refill, the handler hands over to the AI fallback
\* (handle_no_results).
C16_EmptyHandsOver ==
  \A h \in H : EmptyRetrieval(h) => slots[h].pc = "nores"

\* What a like or a dislike can write: history rows, preference counters
\* (user_tastes and user_preferences), favorites and the recipes' popularity.
FeedbackTables(d) == <<d.history, d.tastes, d.prefs, d.favorites, d.rlikes>>

\* The tables as the connection of the handler in slot h sees them: with its
\* own uncommitted writes.
Seen(w, d, h) == IF w.owner = h THEN w.db ELSE d

\* The handler in slot h serves a like or a dislike on a card whose row is gone.
MissingItemFeedback(h) ==
  /\ slots[h].op = "feedback_handler"
  /\ slots[h].text \in {"like", "dislike"}
  /\ slots[h].id \notin ItemIds

\* --- C17: a like or a dislike whose item id is no longer in the catalog
\* changes no history row, preference counter, favorite or popularity, and
\* once its messages are sent it runs next_item: the cursor advances, and the
\* queue is refilled when no item is left at it.
C17_MissingItemSkipped ==
  [][ \A h \in H :
        MissingItemFeedback(h) =>
          LET s == slots[h]
              adv == advance_queue(user_data[s.u], s.kind)
              cur == current_item(adv, s.kind)
              c == user_data'[s.u].bundle[s.kind]
          IN  /\ FeedbackTables(db') = FeedbackTables(db)
              /\ FeedbackTables(Seen(wtx', db', h)) = FeedbackTables(Seen(wtx, db, h))
              /\ (s.pc = "message" /\ slots'[h].op = "feedback_handler") =>
                    \/ /\ cur # NoItem
                       /\ slots'[h].pc = "nxcard" /\ slots'[h].item = cur
                       /\ c = adv.bundle[s.kind]
                    \/ /\ cur = NoItem
                       /\ slots'[h].pc = "nxcard"
                       /\ c.index = 0 /\ c.items = <<slots'[h].item>>
                    \/ /\ cur = NoItem
                       /\ slots'[h].pc = "nxnone"
                       /\ c = adv.bundle[s.kind] ]_vars

\* The like of a stale card has reached next_item with a queue in place.
C17_Witness ==
  \E h \in H :
    /\ MissingItemFeedback(h) /\ slots[h].text = "like"
    /\ slots[h].pc = "nxcard"
    /\ user_data[slots[h].u].bundle[slots[h].kind].present

\* The handler in slot h has just entered next_item.
EntersNextItem(h) ==
  /\ slots[h].pc \notin {"nxcard", "nxnone"}
  /\ slots'[h].pc \in {"nxcard", "nxnone"}

\* --- C18: a next leaves every preference counter, history row, favorite and
\* popularity unchanged; a like, a dislike and a next touch the queue only in
\* next_item, where the cursor moves on by exactly one and the item at the new
\* cursor is presented, or, none being left, the queue is refilled.
C18_NextOnlyAdvances ==
  [][ \A h \in H :
        slots[h].op = "feedback_handler" =>
          LET s == slots[h]
              b == user_data[s.u].bundle[s.kind]
              c == user_data'[s.u].bundle[s.kind]
          IN  /\ s.text = "next" =>
                    /\ FeedbackTables(db') = FeedbackTables(db)
                    /\ FeedbackTables(Seen(wtx', db', h)) = FeedbackTables(Seen(wtx, db, h))
              /\ ~EntersNextItem(h) => c = b
              /\ EntersNextItem(h) =>
                    \/ /\ ~b.present /\ c = b /\ slots'[h].pc = "nxnone"
                    \/ /\ b.present /\ b.index + 1 < Len(b.items)
                       /\ c = [b EXCEPT !.index = b.index + 1]
                       /\ slots'[h].pc = "nxcard" /\ slots'[h].item = b.items[b.index + 2]
                    \/ /\ b.present /\ b.index + 1 >= Len(b.items)
                       /\ c = [b EXCEPT !.index = b.index + 1]
                       /\ slots'[h].pc = "nxnone"
                    \/ /\ ~b.present \/ b.index + 1 >= Len(b.items)
                       /\ c.present /\ c.index = 0 /\ c.items = <<slots'[h].item>>
                       /\ c.meta = b.meta
                       /\ slots'[h].pc = "nxcard" ]_vars

\* A next on the first card of a search queue of several items presents the second.
C18_Witness ==
  \E h \in H :
    LET b == user_data[slots[h].u].bundle[slots[h].kind]
    IN  /\ slots[h].op = "feedback_handler" /\ slots[h].text = "next"
        /\ slots[h].pc = "nxcard"
        /\ b.index = 1 /\ Len(b.items) >= 2 /\ slots[h].item = b.items[2]

\* --- C19: a like on a recipe raises that recipe's popularity by exactly 1
\* and records a favorite for (user, recipe); a dislike on a recipe and any
\* feedback on a venue leave every popularity and the favorites unchanged.
C19_LikeRaisesPopularity ==
  [][ \E chat \in ChatIds, id \in ItemIds, liked \in BOOLEAN :
        /\ ghost' = Append(ghost, <<chat, id, liked>>)
        /\ IF id \in RecipeIds /\ liked
           THEN /\ db'.rlikes = [db.rlikes EXCEPT ![id] = @ + 1]
                /\ Rows(db'.favorites, <<chat, id>>) = Rows(db.favorites, <<chat, id>>) + 1
                /\ \A k \in (DOMAIN db.favorites \cup DOMAIN db'.favorites) \ {<<chat, id>>} :
                     Rows(db'.favorites, k) = Rows(db.favorites, k)
           ELSE /\ db'.rlikes = db.rlikes
                /\ db'.favorites = db.favorites ]_vars

\* A recipe liked twice and disliked once has popularity 2 and two favorite rows.
C19_Witness ==
  \E chat \in ChatIds, id \in RecipeIds :
    /\ Len(ghost) = MaxN
    /\ \E i \in 1..MaxN : ghost[i] = <<chat, id, FALSE>>
    /\ db.rlikes[id] = 2
    /\ Rows(db.favorites, <<chat, id>>) = 2

\* The handler in slot h is at the step that presents its card.
Presenting(h) == slots[h].pc \in {"card", "nxcard"}

C21_RetryBounded ==
  /\ [](/\ ghost.tries <= RetryCeiling(ghost.path)
        /\ ghost.pc = "done" =>
             /\ ghost.shown # NoItem
             /\ ghost.allLast => ghost.shown.id = ghost.last
             /\ ghost.path = "surprise" =>
                  ghost.shown \in RandomPick(db, ghost.kind, ResolveChat, CityOf(ResolveChat),
                                             ghost.meta.taste, ghost.selected, ghost.last))
  /\ <>(ghost.pc \in {"done", "none"})

\* The surprise loop ran all its rounds on a single matching item and
\* presented it.
C21_Witness ==
  /\ ghost.pc = "done" /\ ghost.path = "surprise"
  /\ ghost.tries = RandomRetries /\ ghost.allLast
  /\ ghost.shown # NoItem /\ ghost.shown.id = ghost.last

\* C22: a store write under lock contention is attempted at most 3 times, is
\* retried only after a lock conflict, writes exactly once when an attempt
\* succeeds, and raises only after the third failed attempt when the failures
\* are lock conflicts; this holds of every call, the calls on the caller's
\* connection that record user feedback included.
C22_BoundedRetry ==
  /\ ghost.tries <= WriteRetries
  /\ ghost.conflicts >= ghost.tries - 1
  /\ ghost.writes = (IF ghost.pc = "done" THEN 1 ELSE 0)
  /\ (ghost.pc = "raised" /\ ghost.err = "locked") => ghost.tries = WriteRetries

\* The part of C22 that holds: the same statement for the calls that use the
\* function's own connections.
C22_OwnConnRetry == ghost.conn = None => C22_BoundedRetry

\* An own-connection call met the lock twice and wrote on its third attempt.
C22_OwnConnWitness ==
  /\ ghost.conn = None /\ ghost.pc = "done"
  /\ ghost.tries = WriteRetries /\ ghost.conflicts = WriteRetries - 1

\* C23: no feedback, search or surprise operation completes as a success
\* while one of its store writes was dropped. Every such operation ends with
\* a remember_context call that persists its last_action; when the operation
\* completes (the feedback handler commits, the search or surprise handler
\* sends its card and returns), the stored user state carries that value.
C23_Completes(h) ==
  LET s == slots[h]
  IN  /\ slots'[h] = Idle
      /\ \/ /\ s.op = "feedback_handler" /\ s.pc \in {"nxcard", "nxnone"}
            /\ wtx.owner = h /\ db' = wtx.db
         \/ /\ s.pc = "card" /\ ~s.fail
            /\ user_data'[s.u].last[s.kind] = s.item.id

C23_Persisted(s) ==
  IF s.op = "feedback_handler" THEN "feedback"
  ELSE (IF s.act = "random" THEN "random_" ELSE "search_") \o s.kind

C23_NoSilentDrop ==
  [][\A h \in H : C23_Completes(h) =>
       db'.ustate[slots[h].u].last_action = C23_Persisted(slots[h])]_vars

\* C24: a new search or surprise request replaces the previous queue of its
\* (user, kind). When the request stores its result, the queue is the fresh
\* list at cursor 0 holding the item presented; when the request completes
\* with no match, nothing of the previous request stays queued, so that a
\* later next cannot present an item only the previous request had queued.
C24_QueueReplaced ==
  [][\A h \in H :
       LET s == slots[h]
           t == slots'[h]
       IN  /\ (s.pc \in {"react", "thinking"} /\ t.pc = "card") =>
                LET b == user_data'[s.u].bundle[t.kind]
                IN  /\ b.present /\ b.index = 0
                    /\ \E i \in 1..Len(b.items) : b.items[i] = t.item
           /\ (s.pc = "nores" /\ t = Idle /\ conv'[s.u] = "ASK_QUERY") =>
                Len(user_data'[s.u].bundle[ItemType(s.mode)].items) = 0]_vars

\* The part of C24 that holds: a request that finds something replaces the
\* queue with its own result at cursor 0.
C24_MatchReplaces ==
  [][\A h \in H :
       (slots[h].pc \in {"react", "thinking"} /\ slots'[h].pc = "card") =>
         LET b == user_data'[slots[h].u].bundle[slots'[h].kind]
         IN  /\ b.present /\ b.index = 0
             /\ \E i \in 1..Len(b.items) : b.items[i] = slots'[h].item]_vars

\* After a request that found nothing, a next presents the second item of the
\* queue an earlier search had stored.
C24_StaleItemPresented ==
  \E h \in H :
    LET s == slots[h]
        b == user_data[s.u].bundle[s.kind]
    IN  /\ s.op = "feedback_handler" /\ s.text = "next" /\ s.pc = "nxcard"
        /\ b.meta.kind = "search" /\ b.index = 1 /\ Len(b.items) >= 2
        /\ db.ustate[s.u].last_action = "ai_suggestion"

\* C25: top_taste returns a category only if the user's row of that category
\* has likes >= 5 and likes > dislikes in the tables the call reads; a
\* category in any other state, or of another user only, is not returned.
C25_TopTasteThreshold ==
  [][ghost'.calls # ghost.calls =>
       (ghost'.info # None =>
          LET k == <<chatOf[QueueUser], ghost'.info>>
          IN  /\ k \in DOMAIN db.tastes
              /\ db.tastes[k].likes >= 5
              /\ db.tastes[k].likes > db.tastes[k].dislikes)]_vars

\* top_taste returned sweet while the user's spicy row has as many likes as
\* dislikes and another user's row is over the threshold.
C25_Witness ==
  /\ ghost.info = "sweet" /\ ghost.pc = "idle"
  /\ <<"u1", "spicy">> \in DOMAIN db.tastes
  /\ db.tastes[<<"u1", "spicy">>].likes = db.tastes[<<"u1", "spicy">>].dislikes
  /\ <<"u2", "salty">> \in DOMAIN db.tastes

\* C26: for each user and category the hint message is sent at most once,
\* over any sequence of likes, dislikes and session resets.
C26_HintAtMostOnce ==
  \A c \in DOMAIN ghost.sent : ghost.sent[c] <= 1

\* The hint for sweet was sent, the session was reset, and a later like went
\* through maybe_send_hint with the sweet row still on top: nothing was sent.
C26_Witness ==
  /\ ghost.sent["sweet"] = 1 /\ ghost.info = "sweet" /\ ghost.pc = "idle"
  /\ ghost.reset /\ ghost.held
  /\ user_data[QueueUser].hinted = {"sweet"}

\* C27: across every step of the engine a preference row (user, category),
\* once created, is never deleted and its likes and dislikes never decrease;
\* a row is created or changed only by a step that is a feedback event of
\* its user: the commit of a like or dislike on a card in the user's chat, or
\* a like or dislike on an AI answer by the user.
C27_FeedbackCommit(k) ==
  \E h \in H :
    /\ slots[h].op = "feedback_handler" /\ slots[h].text \in {"like", "dislike"}
    /\ chatOf[slots[h].u] = k[1]
    /\ wtx.owner = h /\ slots'[h] = Idle

C27_AiFeedbackStep(k) ==
  /\ k[1] \in Users /\ budget'[k[1]] < budget[k[1]]
  /\ slots' = slots

C29_ResolutionOrder ==
  LET t == ghost.text
      sentinel == IsSub(<<"dice">>, t)
      keywords == {TASTE_TOKENS[i].cat : i \in {j \in DOMAIN TASTE_TOKENS :
                                                   IsSub(TASTE_TOKENS[j].token, t)}}
      IsWord(w) == IsSub(<<" ">> \o w \o <<" ">>, <<" ">> \o t \o <<" ">>)
      hints == {CATEGORY_HINTS[i].cat : i \in {j \in DOMAIN CATEGORY_HINTS :
                  \/ IsSub(CATEGORY_HINTS[j].hint, t)
                  \/ \E w \in DOMAIN SYNONYMS : /\ IsWord(w)
                                               /\ \E k \in DOMAIN SYNONYMS[w] :
                                                    IsSub(CATEGORY_HINTS[j].hint, SYNONYMS[w][k])}}
  IN  ghost.called =>
        /\ sentinel => ghost.resolved = "random"
        /\ (~sentinel /\ keywords # {}) =>
             /\ ghost.resolved \in keywords
             /\ ghost.detected \in keywords
        /\ (~sentinel /\ keywords = {}) =>
             /\ ghost.resolved = None
             /\ ghost.detected \in hints \cup {None}

\* --- C30: in handle_query, when the user already has a category, a query
\* text that holds a taste keyword of another category leaves the user's
\* selected category, taste and stored category as they were and is searched
\* with the user's category as the filter (the handler's taste and explicit
\* category, which the retrieval and the stored queue's metadata then use);
\* a category is inferred from the text only when the user has none.
C30_KeywordKeepsCategory ==
  [][\A h \in H :
       LET s == slots'[h]
           u == s.u
           had == IF user_data[u].taste # None THEN user_data[u].taste
                  ELSE USER_STATE[u].category
       IN  /\ (slots[h].op = "idle" /\ s.op = "handle_query" /\ s.text \in Queries) =>
                /\ s.pc = "inferred" => had = None
                /\ had # None =>
                     /\ user_data'[u].selected = user_data[u].selected
                     /\ user_data'[u].taste = user_data[u].taste
                     /\ USER_STATE'[u].category = USER_STATE[u].category
                     /\ s.taste = had
                     /\ s.explicit = user_data[u].selected
           /\ (slots[h].op = "handle_query" /\ slots[h].pc = "thinking" /\ s.pc = "card") =>
                /\ user_data'[u].selected = user_data[u].selected
                /\ user_data'[u].bundle[s.kind].meta.taste = slots[h].taste
                /\ \A i \in 1..Len(user_data'[u].bundle[s.kind].items) :
                     slots[h].explicit # None =>
                       user_data'[u].bundle[s.kind].items[i].category = slots[h].explicit]_vars

\* A search for "cake" by a user whose selected category is spicy has run its
\* retrieval with that category.
C30_Witness ==
  \E h \in H :
    LET s == slots[h]
    IN  /\ s.op = "handle_query" /\ s.text = "cake" /\ s.act = "search"
        /\ s.pc \in {"card", "nores"}
        /\ s.taste = "spicy" /\ s.explicit = "spicy"
        /\ detect_category_from_text(s.text) = "sweet"
        /\ user_data[s.u].selected = "spicy"

\* --- C32: the actions like, dislike and next of a card are bound to the
\* item shown on the card: the first write of a feedback handler (the
\* preference update and the log row of a like or dislike, the log row of a
\* next) is made for the item of the card whose button was pressed, also
\* when that card is not the queue's current item.
C32_ActionsBoundToCard ==
  [][\A h \in H :
       (slots[h].op = "feedback_handler" /\ wtx.owner # h /\ wtx'.owner = h) =>
         LET s == slots[h]
             k == <<s.u, s.id, s.text>>
         IN  /\ s.item.id = s.id
             /\ Rows(wtx'.db.feedback, k) = Rows(db.feedback, k) + 1]_vars

\* --- C33: for every input text that is not empty after normalization,
\* expand_terms returns a non-empty set of non-empty terms that holds the
\* normalized input: the input's letter groups in lower case, with no space
\* at either end and exactly one space wherever the input separates two of
\* them; for an input that is empty or only spaces it returns no terms.
C33_TermsHoldInput ==
  LET q == ghost.query
      b == ghost.base
      Letters(t) == SelectSeq(t, LAMBDA x : x # " ")
      At(t, k) == CHOOSE i \in DOMAIN t :
                    t[i] # " " /\ Cardinality({j \in 1..i : t[j] # " "}) = k
      n == Len(Letters(q))
  IN  ghost.called =>
        IF n = 0 THEN ghost.terms = {}
        ELSE /\ Len(Letters(b)) = n
             /\ \A k \in 1..n :
                  Letters(b)[k] = (IF Letters(q)[k] = "KOFE" THEN "kofe" ELSE Letters(q)[k])
             /\ b[1] # " " /\ b[Len(b)] # " "
             /\ \A i \in 1..(Len(b) - 1) : ~(b[i] = " " /\ b[i + 1] = " ")
             /\ \A k \in 1..(n - 1) :
                  (At(b, k + 1) = At(b, k) + 1) <=> (At(q, k + 1) = At(q, k) + 1)
             /\ b \in ghost.terms
             /\ << >> \notin ghost.terms

C33_Witness ==
  /\ ghost.called
  /\ ghost.query = <<" ", "KOFE", " ", " ", "a">>
  /\ ghost.base = <<"kofe", " ", "a">>
  /\ ghost.base \in ghost.terms
  /\ {<<"kofe">>, <<"a">>, <<"kofe", " ">>, <<"latte">>} \subseteq ghost.terms

\* --- C34: for every entry of the synonym table whose key is a substring of
\* the normalized phrase, or of which the normalized phrase is a substring,
\* the terms hold all of the entry's alternate terms, whether or not the
\* store's synonym table can be read.
C34_SynonymsBothWays ==
  (ghost.called /\ ghost.base # << >>) =>
    \A key \in DOMAIN SYNONYMS :
      (IsSub(key, ghost.base) \/ IsSub(ghost.base, key)) =>
        \A i \in DOMAIN SYNONYMS[key] : SYNONYMS[key][i] \in ghost.terms

C36_FirstCardAtCursor ==
  [][\A h \in H :
       LET s == slots[h]
           b == user_data[s.u].bundle[s.kind]
       IN  /\ (s.op = "handle_query" /\ s.act = "search" /\ s.pc = "card"
                 /\ cards' # cards) =>
                s.item = current_item(user_data[s.u], s.kind)
           /\ (s.op = "feedback_handler" /\ slots'[h].pc = "nxcard" /\ s.pc # "nxcard"
                 /\ ghost[s.u][s.kind] = "search" /\ b.index + 1 < Len(b.items)
                 /\ \E i, j \in 1..Len(b.items) : b.items[i].id # b.items[j].id) =>
                slots'[h].item.id # user_data[s.u].last[s.kind]]_vars

\* --- C37: the favorites hold at most one record per (user, recipe): a
\* second like of the same recipe adds no second favorite.
C37_OneFavoritePerRecipe ==
  \A k \in DOMAIN db.favorites : db.favorites[k] <= 1

\* --- C38: when a like brings a (user, category) row to the hint condition
\* (its likes reach 5 and exceed its dislikes), the top_taste check of that
\* same feedback event sees the counters with that like: it returns the
\* category (the row being the user's only top row), and the hint for a
\* category not yet hinted is sent in that event unless the send fails.
C38_HintInSameEvent ==
  [][(ghost.pc = "hint" /\ ghost'.pc = "idle") =>
       \A c \in DOMAIN ghost.sent :
         LET k == <<chatOf[QueueUser], c>>
             mine == {j \in DOMAIN wtx.db.tastes : j[1] = k[1]}
         IN  ( /\ k \in DOMAIN wtx.db.tastes
               /\ wtx.db.tastes[k].likes = 5
               /\ wtx.db.tastes[k].likes > wtx.db.tastes[k].dislikes
               /\ k \in DOMAIN db.tastes /\ db.tastes[k].likes = 4
               /\ \A j \in mine \ {k} : wtx.db.tastes[j].likes < 5 ) =>
             /\ ghost'.info = c
             /\ (c \notin user_data[QueueUser].hinted /\ db' = wtx.db) =>
                  ghost'.sent[c] = ghost.sent[c] + 1]_vars


\* C39: when a city is given, every venue returned by the search retrieval
\* (exact or widened) and by the surprise retrieval, which are also the refill
\* retrievals, has that city; for a city with no matching venue the result is
\* empty (an empty list, or no row), never a venue of another city.
C39_VenuesInCity ==
  (ghost.called /\ ghost.city # None) =>
    IF ghost.kind = "place"
    THEN /\ \A i \in DOMAIN ghost.result :
              Restaurants[ghost.result[i].id].city = ghost.city
         /\ (\A id \in PlaceIds : Restaurants[id].city # ghost.city) => ghost.result = << >>
    ELSE /\ ghost.result # NoItem => Restaurants[ghost.result.id].city = ghost.city
         /\ (\A id \in PlaceIds : Restaurants[id].city # ghost.city) => ghost.result = NoItem

\* The widened search for "spicy" in Almaty has run: the Astana venue p4 carries
\* the tag and outranks p3, and only p3 was returned.
C39_Witness ==
  /\ ghost.called /\ ghost.kind = "place" /\ ghost.city = "Almaty"
  /\ ghost.taste = "spicy" /\ ghost.selected = None /\ ghost.terms = {}
  /\ ghost.result # << >> /\ ghost.result[1].id = "p3"
  /\ "spicy" \in Restaurants["p4"].tags
  /\ Restaurants["p4"].rating > Restaurants["p3"].rating
=============================================================================
